---- MODULE Spec2Model ----
(***************************************************************************)
(* Model of the MIA-Core backend's session subsystem (routers/auth.py,     *)
(* security.py, access.py, jwt_utils.py), of the shop checks of the       *)
(* protected routes and of the Pub/Sub stream (services/pubsub_service.py).*)
(***************************************************************************)
EXTENDS Integers, Sequences, FiniteSets, TLC

\* ------------------------------------------------------------------ bounds
\* requests started in a run of concurrent handlers, in a run of a sequential client of
\* the login flows, and in a run of a client that presents tokens
MaxRequests == 3
MaxSeqRequests == 3
MaxTokenRequests == 3
\* requests started in a run of a client of the OAuth flow and of the token checks
MaxVerifyRequests == 3
\* events published on the bus while a stream is open
MaxPublished == 2
\* the requests of a run that puts access decisions to user_can_access_shop
MaxAccessRequests == 3

\* ------------------------------------------------------- program constants
JwtExpMinutes == 60
JwtRefreshDays == 7
StateExpMinutes == 10
RefreshMinutes == JwtRefreshDays * 24 * 60
\* stream_messages: the default timeout and the wait of one queue.get (seconds)
DefaultTimeout == 300
ReceiveWait == 10

NONE == "none"
Issuer == "mia-core"
NoTime == 0 - 1

\* the handlers that serve concurrent clients, and the handler of a sequential client
Procs == {1, 2}
SeqProcs == {0}
TokenProcs == {3}
VerifyProcs == {4}
AccessProcs == {5}
AllProcs == Procs \cup SeqProcs \cup TokenProcs \cup VerifyProcs \cup AccessProcs
\* how many requests a run starts at handler p
Quota(p) ==
  IF p \in Procs THEN MaxRequests
  ELSE IF p \in SeqProcs THEN MaxSeqRequests
  ELSE IF p \in TokenProcs THEN MaxTokenRequests
  ELSE IF p \in VerifyProcs THEN MaxVerifyRequests
  ELSE MaxAccessRequests
Users == {"U1", "U2"}
\* the chat user whose requests run concurrently (every query is keyed by the user id,
\* so handlers of different users do not touch the same rows)
ConcUsers == {"U1"}
FirebaseUids == {"F1", "F2"}
ExistingShops == {"S1", "S2"}
ShopIds == ExistingShops \cup {"S3"}
Roles == {"owner", "staff"}
\* the instants (minutes) at which requests arrive: the start, the minute at which an
\* access token of the start expires, the minute at which a refresh token of it does
Instants == {0, JwtExpMinutes, RefreshMinutes}

\* Shop rows (models.py Shop): owner_uid and name of each existing shop
ShopOwner(s) == IF s = "S1" THEN "F1" ELSE "F2"
ShopName(s) == IF s = "S1" THEN "Shop One" ELSE "Shop Two"
\* select(Shop).where(Shop.shop_id == s) ... scalar_one_or_none()
ShopExists(s) == s \in ExistingShops

\* ------------------------------------------------------------------ tokens
\* A token is the record of what its bytes decode to: the signing algorithm,
\* whether the signature verifies under the key of that algorithm, and the claims.
\* A claim that is absent from the payload is NONE (NoTime for iat/exp).
MkToken(alg, sig, iss, iat, exp, uid, user_id, shop_id, role, provider, typ) ==
  [alg |-> alg, sig |-> sig, iss |-> iss, iat |-> iat, exp |-> exp, uid |-> uid,
   user_id |-> user_id, shop_id |-> shop_id, role |-> role, provider |-> provider,
   typ |-> typ]

NoToken == MkToken(NONE, NONE, NONE, NoTime, NoTime, NONE, NONE, NONE, NONE, NONE, NONE)

\* the four subject fields every login flow passes to create_*_token
Subject(user_id, shop_id, role, provider) ==
  [user_id |-> user_id, shop_id |-> shop_id, role |-> role, provider |-> provider]

create_access_token(payload, t) ==
  MkToken("HS256", "ok", Issuer, t, t + JwtExpMinutes, NONE,
          payload.user_id, payload.shop_id, payload.role, payload.provider, NONE)

create_refresh_token(payload, t) ==
  MkToken("HS256", "ok", Issuer, t, t + RefreshMinutes, NONE,
          payload.user_id, payload.shop_id, payload.role, payload.provider, "refresh")

\* the state token minted by /auth/line/bootstrap (shop_id set) and
\* /auth/line/login-url (shop_id absent)
StateToken(shop_id, t) ==
  MkToken("HS256", "ok", Issuer, NoTime, t + StateExpMinutes, NONE,
          NONE, shop_id, NONE, NONE, "line_login_state")

\* a Firebase ID token of the primary provider (RS256, verified by the Admin SDK);
\* the custom claims of a bridged chat session ride in shop_id/role/provider
FirebaseIdToken(uid, shop_id, role, provider, t) ==
  MkToken("RS256", "ok", "firebase", t, t + 60, uid, NONE, shop_id, role, provider, NONE)

\* firebase_auth.create_custom_token(uid, developer_claims)
CustomToken(uid, shop_id, role) ==
  MkToken("RS256", "ok", "firebase-custom", NoTime, NoTime, uid, NONE, shop_id, role,
          "line", NONE)

\* a decode that does not look at exp: the expiry property C12 must not hold of it
JwtDecodeIgnoringExp(tok, t) ==
  /\ tok.alg = "HS256"
  /\ tok.sig = "ok"
  /\ tok.iss = Issuer

\* jwt.decode(token, secret, algorithms=["HS256"], issuer=...): TRUE when it returns
\* a payload, FALSE when it raises (bad algorithm or signature, expired, wrong issuer)
JwtDecodeOk(tok, t) ==
  /\ tok.alg = "HS256"
  /\ tok.sig = "ok"
  /\ ~(tok.exp # NoTime /\ tok.exp <= t)
  /\ tok.iss = Issuer

\* firebase_admin.auth.verify_id_token: TRUE when it returns the decoded token
VerifyIdTokenOk(tok, t) ==
  /\ tok.alg = "RS256"
  /\ tok.sig = "ok"
  /\ tok.iss = "firebase"
  /\ tok.exp > t
  /\ tok.uid # NONE

\* ------------------------------------------------------------ auth context
MkCtx(status, auth, uid, user_id, shop_id, role, provider) ==
  [status |-> status, auth |-> auth, uid |-> uid, user_id |-> user_id,
   shop_id |-> shop_id, role |-> role, provider |-> provider]

NoCtx == MkCtx(0, NONE, NONE, NONE, NONE, NONE, NONE)
Unauthorized == MkCtx(401, NONE, NONE, NONE, NONE, NONE, NONE)

\* security.get_current_user: the Firebase ID token only; the dict it returns has the
\* keys uid, email, name, picture and no provider
get_current_user(tok, t) ==
  IF VerifyIdTokenOk(tok, t)
    THEN MkCtx(200, NONE, tok.uid, NONE, NONE, NONE, NONE)
    ELSE Unauthorized

\* a fallback that loses the role of the payload: the round-trip property C20 must
\* not hold of it
get_auth_context_without_role(tok, t) ==
  IF VerifyIdTokenOk(tok, t)
    THEN MkCtx(200, "firebase", tok.uid, NONE, NONE, NONE, NONE)
    ELSE IF ~JwtDecodeOk(tok, t)
      THEN Unauthorized
      ELSE IF tok.user_id = NONE \/ tok.shop_id = NONE
        THEN Unauthorized
        ELSE MkCtx(200, "line", NONE, tok.user_id, tok.shop_id, NONE, tok.provider)

\* security.get_auth_context: Firebase first, then the HS256 session token
get_auth_context(tok, t) ==
  IF VerifyIdTokenOk(tok, t)
    THEN MkCtx(200, "firebase", tok.uid, NONE, NONE, NONE, NONE)
    ELSE IF ~JwtDecodeOk(tok, t)
      THEN Unauthorized
      ELSE IF tok.user_id = NONE \/ tok.shop_id = NONE
        THEN Unauthorized
        ELSE MkCtx(200, "line", NONE, tok.user_id, tok.shop_id, tok.role, tok.provider)

\* --------------------------------------------------------- membership store
\* models.py ShopMember; member_id (a fresh uuid) is the row's position in the table
Row(shop_id, user_id, role, auth_provider, created_at) ==
  [shop_id |-> shop_id, user_id |-> user_id, role |-> role,
   auth_provider |-> auth_provider, created_at |-> created_at]

NoRow == Row(NONE, NONE, NONE, NONE, NoTime)

\* the tables the server may start with (rows written before, none duplicated)
InitialStores ==
  { << >>,
    << Row("S1", "U1", "staff", "line", 0 - 2) >>,
    << Row("S1", "U1", "staff", "line", 0 - 2), Row("S2", "U1", "owner", "line", 0 - 1) >>,
    << Row("S1", "F2", "staff", "firebase", 0 - 2), Row("S2", "U2", "staff", "line", 0 - 1) >> }

\* the membership query of the direct login with the provider test reversed: the
\* repeat-login property C10 must not hold of it
MemberShopRowsOtherProvider(ms, user_id, shop_id) ==
  { i \in 1 .. Len(ms) : /\ ms[i].user_id = user_id
                         /\ ms[i].shop_id = shop_id
                         /\ ms[i].auth_provider # "line"
                         /\ ShopExists(ms[i].shop_id) }

\* select(ShopMember, Shop).join(Shop ...).where(user_id).where(shop_id).where(line)
MemberShopRows(ms, user_id, shop_id) ==
  { i \in 1 .. Len(ms) : /\ ms[i].user_id = user_id
                         /\ ms[i].shop_id = shop_id
                         /\ ms[i].auth_provider = "line"
                         /\ ShopExists(ms[i].shop_id) }

\* select(ShopMember, Shop).join(Shop ...).where(user_id).where(line)
UserShopRows(ms, user_id) ==
  { i \in 1 .. Len(ms) : /\ ms[i].user_id = user_id
                         /\ ms[i].auth_provider = "line"
                         /\ ShopExists(ms[i].shop_id) }

\* select(ShopMember).where(shop_id).where(user_id).where(auth_provider)
MemberRows(ms, shop_id, user_id, provider) ==
  { i \in 1 .. Len(ms) : /\ ms[i].shop_id = shop_id
                         /\ ms[i].user_id = user_id
                         /\ ms[i].auth_provider = provider }

\* select(ShopMember).where(user_id).where(line)
UserRows(ms, user_id) ==
  { i \in 1 .. Len(ms) : ms[i].user_id = user_id /\ ms[i].auth_provider = "line" }

\* .order_by(created_at.desc()) then the first row: any row of the latest creation time
\* the oldest row in place of the newest: the callback property C15 must not hold of it
Earliest(ms, idx) == { i \in idx : \A j \in idx : ms[i].created_at <= ms[j].created_at }

Latest(ms, idx) == { i \in idx : \A j \in idx : ms[j].created_at <= ms[i].created_at }

\* ---------------------------------------------------------------- responses
\* what a response carries: the status, the access (or custom) token of the body or
\* redirect URL, the refresh cookie it sets, the body's fields, the state token inside a
\* loginUrl, and (for the reader of the model) the context the route resolved
MkResp(status, token, cookie, shopId, shopName, role, requiresSelection, shops, state, ctx) ==
  [status |-> status, token |-> token, cookie |-> cookie, shopId |-> shopId,
   shopName |-> shopName, role |-> role, requiresSelection |-> requiresSelection,
   shops |-> shops, state |-> state, ctx |-> ctx]

NoResp == MkResp(0, NoToken, NoToken, NONE, NONE, NONE, NONE, << >>, NoToken, NoCtx)

\* raise HTTPException(status_code=...), and the redirect that carries ?error=no_shop
ErrorResp(status) ==
  MkResp(status, NoToken, NoToken, NONE, NONE, NONE, NONE, << >>, NoToken, NoCtx)

\* a token response that sets no cookie: the cookie property C14 must not hold of it
TokenRespWithoutCookie(status, payload, shopId, shopName, role, requiresSelection, t) ==
  MkResp(status, create_access_token(payload, t), NoToken,
         shopId, shopName, role, requiresSelection, << >>, NoToken, NoCtx)

\* the JSON body with the access token, and the refresh cookie _set_refresh_cookie sets
TokenResp(status, payload, shopId, shopName, role, requiresSelection, t) ==
  MkResp(status, create_access_token(payload, t), create_refresh_token(payload, t),
         shopId, shopName, role, requiresSelection, << >>, NoToken, NoCtx)

\* a request: its endpoint and inputs; for the reader of the model, pre and post are
\* the membership table when it arrived and when it was answered, at the arrival time
MkReq(op, user, shop, token, pre, post) ==
  [op |-> op, user |-> user, shop |-> shop, token |-> token, pre |-> pre, post |-> post,
   at |-> 0]

NoReq == MkReq(NONE, NONE, NONE, NoToken, << >>, << >>)

\* the direct login that wrote a membership row most recently (later logins of the same
\* user and shop do not replace it), and how many logins of that user and shop were
\* answered after it
NoLogin == [user |-> NONE, shop |-> NONE, shopId |-> NONE, role |-> NONE, repeats |-> 0]

\* no login has set the refresh cookie yet
NoSession == [origin |-> Subject(NONE, NONE, NONE, NONE), rotations |-> 0]

\* ------------------------------------------------------------------- state
VARIABLES
  members,   \* the shop_members table, in insertion order
  now,       \* the clock, in minutes
  nreq,      \* requests started so far
  pc,        \* per handler: where it is suspended
  req,       \* per handler: the request (pre/post: the table when it started/ended)
  resp,      \* per handler: the response of the last request it completed
  jar,       \* the client's refresh cookie
  bearer,    \* the access token the client keeps
  stateTok,  \* the state token of the login URL last handed to the client
  firstLogin,\* history: the last direct login that created a membership (NoLogin: none)
  session,   \* history: the subject of the last login that set the refresh cookie, and
             \* how many rotations of the cookie were answered since
  phase,     \* stream_messages: "closed", "waiting" (in wait_for), "finally", "ended"
  sub,       \* subscription_task: "none", "scheduled", "blocking", "failed", "cancelled"
  pull,      \* the streaming pull: "none", "active", "failed"
  clientGone,\* the client of the stream has closed its connection
  clock,     \* the event loop's time, in seconds
  startTime, \* start_time of the stream
  deadline,  \* when the pending wait_for times out
  filter,    \* the stream's arguments: shop_id, customer_id, timeout
  bus,       \* the events published, in publication order
  delivery,  \* per published event: "pending", "acked" or "nacked"
  handed,    \* history: the events message_callback passed to callback(data)
  queue,     \* the asyncio.Queue of the stream
  yielded,   \* history: the events the stream yielded
  emitted,   \* the SSE events event_generator sent, in order
  outcome,   \* how the stream left its loop and ended
  pushed,    \* the messages the chat platform accepted from push_message, in order
  history,   \* the ChatEvent rows the send action committed, in order
  peer       \* an earlier stream of the same process: its phase, subscription task,
             \* streaming pull, arguments and start_time

authVars == << members, now, nreq, pc, req, resp, jar, bearer, stateTok, firstLogin,
              session >>

streamVars == << phase, sub, pull, clientGone, clock, startTime, deadline, filter, bus,
                 delivery, handed, queue, yielded, emitted, outcome, pushed, history,
                 peer >>

\* the stream's variables that the send action does not touch
consumerVars == << phase, sub, pull, clientGone, clock, startTime, deadline, filter,
                   handed, queue, yielded, emitted, outcome, peer >>

vars == << authVars, streamVars >>

NoFilter == [shop_id |-> NONE, customer_id |-> NONE, timeout |-> 0]

\* no earlier stream was opened
NoPeer == [phase |-> "closed", sub |-> "none", pull |-> "none", filter |-> NoFilter,
           startTime |-> 0]

Init ==
  /\ members \in InitialStores
  /\ now = 0
  /\ nreq = 0
  /\ pc = [p \in AllProcs |-> "idle"]
  /\ req = [p \in AllProcs |-> NoReq]
  /\ resp = [p \in AllProcs |-> NoResp]
  /\ jar = NoToken
  /\ bearer = NoToken
  /\ stateTok = NoToken
  /\ firstLogin = NoLogin
  /\ session = NoSession
  /\ phase = "closed"
  /\ sub = "none"
  /\ pull = "none"
  /\ clientGone = FALSE
  /\ clock = 0
  /\ startTime = 0
  /\ deadline = 0
  /\ filter = NoFilter
  /\ bus = << >>
  /\ delivery = << >>
  /\ handed = << >>
  /\ queue = << >>
  /\ yielded = << >>
  /\ emitted = << >>
  /\ outcome = NONE
  /\ pushed = << >>
  /\ history = << >>
  /\ peer = NoPeer

Free(p) == pc[p] \in {"idle", "done"}

\* the subject fields of a token
SubjectOf(tok) == Subject(tok.user_id, tok.shop_id, tok.role, tok.provider)

\* the history of the refresh cookie after request r was answered: a rotation counts,
\* any other response that sets the cookie starts a new session
Track(r, answer) ==
  IF answer.cookie = NoToken THEN session
  ELSE IF r.op = "refresh" THEN [session EXCEPT !.rotations = @ + 1]
  ELSE [origin |-> SubjectOf(answer.cookie), rotations |-> 0]

\* the client keeps what a response hands it: the cookie, and as its credential the
\* access token, or the ID token it gets by signing in with a custom token
Credential(r, old, t) ==
  IF r.token = NoToken THEN old
  ELSE IF r.token.iss = "firebase-custom"
    THEN FirebaseIdToken(r.token.uid, r.token.shop_id, r.token.role, r.token.provider, t)
    ELSE r.token

Keep(r) ==
  /\ jar' = IF r.cookie # NoToken THEN r.cookie ELSE jar
  /\ bearer' = Credential(r, bearer, now)

\* a request arrives at handler p and runs up to its first await
Begin(p, r, at) ==
  /\ Free(p)
  /\ nreq < Quota(p)
  /\ nreq' = nreq + 1
  /\ req' = [req EXCEPT ![p] = [r EXCEPT !.at = now]]
  /\ resp' = [resp EXCEPT ![p] = NoResp]
  /\ pc' = [pc EXCEPT ![p] = at]
  /\ UNCHANGED << firstLogin, session, streamVars >>

\* a request arrives at handler p, which answers it with r before any other handler runs
Serve(p, r, answer) ==
  /\ Free(p)
  /\ nreq < Quota(p)
  /\ nreq' = nreq + 1
  /\ req' = [req EXCEPT ![p] = [r EXCEPT !.at = now]]
  /\ resp' = [resp EXCEPT ![p] = answer]
  /\ pc' = [pc EXCEPT ![p] = "done"]
  /\ Keep(answer)
  /\ session' = Track(r, answer)
  /\ UNCHANGED << members, now, firstLogin, streamVars >>

\* handler p returns response r, leaving the table as ms
Finish(p, r, ms) ==
  /\ members' = ms
  /\ pc' = [pc EXCEPT ![p] = "done"]
  /\ resp' = [resp EXCEPT ![p] = r]
  /\ req' = [req EXCEPT ![p].post = ms]
  /\ Keep(r)
  /\ firstLogin' =
       IF req[p].op = "login" /\ req[p].shop # NONE /\ req[p].user = firstLogin.user
                              /\ req[p].shop = firstLogin.shop
         THEN [firstLogin EXCEPT !.repeats = @ + 1]
         ELSE IF req[p].op = "login" /\ r.status = 200 /\ Len(ms) > Len(members)
           THEN [user |-> req[p].user, shop |-> req[p].shop, shopId |-> r.shopId,
                 role |-> r.role, repeats |-> 0]
           ELSE firstLogin
  /\ session' = Track(req[p], r)
  /\ UNCHANGED streamVars

\* handler p suspends at its next await
Goto(p, at) ==
  /\ pc' = [pc EXCEPT ![p] = at]
  /\ UNCHANGED << members, req, resp, jar, bearer, firstLogin, session, streamVars >>

Tick ==
  /\ \E t \in Instants : t > now /\ now' = t
  /\ UNCHANGED << members, nreq, pc, req, resp, jar, bearer, stateTok, firstLogin,
                  session, streamVars >>

\* -------------------------------------------------- POST /auth/line (login)
\* a payload that always claims the owner role: the issuance property C27 must not
\* hold of it
member_payload_as_owner(m) == Subject(m.user_id, m.shop_id, "owner", m.auth_provider)

\* auth.py: the payload of a membership row
member_payload(m) == Subject(m.user_id, m.shop_id, m.role, m.auth_provider)

LoginStart(p, user, shop) ==
  /\ Begin(p, MkReq("login", user, shop, NoToken, members, members),
           IF shop # NONE THEN "login_member" ELSE "login_list")
  /\ UNCHANGED << members, now, jar, bearer, stateTok >>

\* auth.py 194-222: the membership of (user, shop), joined with the shop
LoginMemberSelect(p) ==
  /\ pc[p] = "login_member"
  /\ LET rows == MemberShopRows(members, req[p].user, req[p].shop) IN
       IF rows # {}
         THEN \E i \in rows :
                LET m == members[i] IN
                Finish(p, TokenResp(200, member_payload(m), m.shop_id,
                                    ShopName(m.shop_id), m.role, "false", now), members)
         ELSE Goto(p, "login_shop")
  /\ UNCHANGED << now, nreq, stateTok >>

\* auth.py 224-228
LoginShopSelect(p) ==
  /\ pc[p] = "login_shop"
  /\ IF ~ShopExists(req[p].shop)
       THEN Finish(p, ErrorResp(404), members)
       ELSE Goto(p, "login_insert")
  /\ UNCHANGED << now, nreq, stateTok >>

\* a created membership with role staff: the login property C9 must not hold of it
staff_member(shop_id, user_id, t) == Row(shop_id, user_id, "staff", "line", t)

\* a ShopMember built with the defaults of the model class (role staff, auth_provider
\* firebase): the insertion property C28 must not hold of it
default_member(shop_id, user_id, t) == Row(shop_id, user_id, "staff", "firebase", t)

\* auth.py 230-235: ShopMember(shop_id=..., user_id=..., role="owner", auth_provider="line")
owner_member(shop_id, user_id, t) == Row(shop_id, user_id, "owner", "line", t)

\* auth.py 230-256: session.add(member); commit; refresh; the token pair
LoginInsert(p) ==
  /\ pc[p] = "login_insert"
  /\ LET m == owner_member(req[p].shop, req[p].user, now) IN
       Finish(p, TokenResp(200, member_payload(m), m.shop_id,
                           ShopName(m.shop_id), m.role, "false", now),
              Append(members, m))
  /\ UNCHANGED << now, nreq, stateTok >>

\* a "shops" list that stops after the first membership: the selection property C8
\* must not hold of it
ShopListFirstOnly(ms, order) ==
  [k \in 1 .. 1 |->
     [shopId |-> ms[order[k]].shop_id, shopName |-> ShopName(ms[order[k]].shop_id),
      role |-> ms[order[k]].role]]

\* the "shops" list of the requiresSelection body, in the order the rows came
ShopList(ms, order) ==
  [k \in 1 .. Len(order) |->
     [shopId |-> ms[order[k]].shop_id, shopName |-> ShopName(ms[order[k]].shop_id),
      role |-> ms[order[k]].role]]

RECURSIVE Ascending(_)
Ascending(S) ==
  IF S = {} THEN << >>
  ELSE LET x == CHOOSE y \in S : \A z \in S : y <= z IN << x >> \o Ascending(S \ {x})

\* auth.py 258-302: no shopId
LoginList(p) ==
  /\ pc[p] = "login_list"
  /\ LET rows == UserShopRows(members, req[p].user) IN
       IF rows = {}
         THEN Finish(p, ErrorResp(403), members)
         ELSE IF Cardinality(rows) > 1
           THEN Finish(p, MkResp(200, NoToken, NoToken, NONE, NONE, NONE, "true",
                                 ShopList(members, Ascending(rows)), NoToken, NoCtx),
                       members)
           ELSE \E i \in rows :
                  LET m == members[i] IN
                  Finish(p, TokenResp(200, member_payload(m), m.shop_id,
                                      ShopName(m.shop_id), m.role, "false", now), members)
  /\ UNCHANGED << now, nreq, stateTok >>

\* ------------------------------------------- POST /auth/line/select (select)
SelectStart(p, user, shop) ==
  /\ Begin(p, MkReq("select", user, shop, NoToken, members, members), "select_member")
  /\ UNCHANGED << members, now, jar, bearer, stateTok >>

\* auth.py 398-406 and 442-458
SelectMemberSelect(p) ==
  /\ pc[p] = "select_member"
  /\ LET rows == MemberShopRows(members, req[p].user, req[p].shop) IN
       IF rows = {}
         THEN Goto(p, "select_shop")
         ELSE \E i \in rows :
                LET m == members[i] IN
                Finish(p, TokenResp(200, member_payload(m), m.shop_id,
                                    ShopName(m.shop_id), m.role, NONE, now), members)
  /\ UNCHANGED << now, nreq, stateTok >>

\* auth.py 409-413
SelectShopSelect(p) ==
  /\ pc[p] = "select_shop"
  /\ IF ~ShopExists(req[p].shop)
       THEN Finish(p, ErrorResp(404), members)
       ELSE Goto(p, "select_insert")
  /\ UNCHANGED << now, nreq, stateTok >>

\* a selection that creates the membership as staff: the equivalence C23 with the
\* direct login must not hold of it
SelectInsertAsStaff(p) ==
  /\ pc[p] = "select_insert"
  /\ LET m == staff_member(req[p].shop, req[p].user, now) IN
       Finish(p, TokenResp(200, member_payload(m), m.shop_id,
                           ShopName(m.shop_id), m.role, NONE, now),
              Append(members, m))
  /\ UNCHANGED << now, nreq, stateTok >>

\* auth.py 415-440
SelectInsert(p) ==
  /\ pc[p] = "select_insert"
  /\ LET m == Row(req[p].shop, req[p].user, "owner", "line", now) IN
       Finish(p, TokenResp(200, member_payload(m), m.shop_id,
                           ShopName(m.shop_id), m.role, NONE, now),
              Append(members, m))
  /\ UNCHANGED << now, nreq, stateTok >>

\* ------------------------------------------------- GET /auth/line/callback
\* what a browser may bring back as ?state=: the token of its login URL, that token
\* with a broken signature, a session token in its place, or nothing
StateInputs == { stateTok, [stateTok EXCEPT !.sig = "bad"], bearer, NoToken }

\* what the code exchange with the chat platform may return
ExchangeOutcomes == Users \cup {"exchange_failed", NONE}

\* a callback that goes to the code exchange without looking at the state: the
\* ordering property C11 must not hold of it
CallbackStartUnverified(p, state) ==
  /\ Begin(p, MkReq("callback", NONE, state.shop_id, state, members, members),
           "cb_exchange")
  /\ UNCHANGED << members, now, jar, bearer, stateTok >>

\* auth.py 310-326: runs to the first await (the code exchange)
CallbackStart(p, state) ==
  /\ LET r == MkReq("callback", NONE, state.shop_id, state, members, members) IN
       IF state = NoToken
         THEN Serve(p, r, ErrorResp(400))
         ELSE IF ~JwtDecodeOk(state, now)
           THEN Serve(p, r, ErrorResp(401))
           ELSE IF state.typ # "line_login_state"
             THEN Serve(p, r, ErrorResp(401))
             ELSE /\ Begin(p, r, "cb_exchange")
                  /\ UNCHANGED << members, now, jar, bearer >>
  /\ UNCHANGED stateTok

\* auth.py 328-334: _fetch_line_profile and the user id of the profile
CallbackExchange(p) ==
  /\ pc[p] = "cb_exchange"
  /\ \E out \in ExchangeOutcomes :
       IF out \notin Users
         THEN Finish(p, ErrorResp(400), members)
         ELSE /\ pc' = [pc EXCEPT ![p] = IF req[p].shop # NONE THEN "cb_member" ELSE "cb_list"]
              /\ req' = [req EXCEPT ![p].user = out]
              /\ UNCHANGED << members, resp, jar, bearer, firstLogin, session,
                              streamVars >>
  /\ UNCHANGED << now, nreq, stateTok >>

\* the redirect to the frontend with the token in its URL, and the refresh cookie
CallbackRedirect(user, shop_id, role, t) ==
  MkResp(307, create_access_token(Subject(user, shop_id, role, "line"), t),
         create_refresh_token(Subject(user, shop_id, role, "line"), t),
         shop_id, NONE, NONE, NONE, << >>, NoToken, NoCtx)

\* auth.py 335-344, 354-355 and 374-390: scalar_one_or_none raises on two rows
CallbackMemberSelect(p) ==
  /\ pc[p] = "cb_member"
  /\ LET rows == MemberRows(members, req[p].shop, req[p].user, "line") IN
       IF Cardinality(rows) > 1
         THEN Finish(p, ErrorResp(500), members)
         ELSE IF rows = {}
           THEN Goto(p, "cb_insert")
           ELSE \E i \in rows :
                  Finish(p, CallbackRedirect(req[p].user, members[i].shop_id,
                                             members[i].role, now), members)
  /\ UNCHANGED << now, nreq, stateTok >>

\* auth.py 345-355 and 374-390: the insert, under the foreign key on shops.shop_id
CallbackInsert(p) ==
  /\ pc[p] = "cb_insert"
  /\ LET m == Row(req[p].shop, req[p].user, "owner", "line", now) IN
       IF ~ShopExists(m.shop_id)
         THEN Finish(p, ErrorResp(500), members)
         ELSE Finish(p, CallbackRedirect(req[p].user, m.shop_id, m.role, now),
                     Append(members, m))
  /\ UNCHANGED << now, nreq, stateTok >>

\* auth.py 357-390: no shop_id in the state, the most recent membership
CallbackList(p) ==
  /\ pc[p] = "cb_list"
  /\ LET rows == UserShopRows(members, req[p].user) IN
       IF rows = {}
         THEN Finish(p, [ErrorResp(307) EXCEPT !.requiresSelection = "error=no_shop"],
                     members)
         ELSE \E i \in Latest(members, rows) :
                Finish(p, CallbackRedirect(req[p].user, members[i].shop_id,
                                           members[i].role, now), members)
  /\ UNCHANGED << now, nreq, stateTok >>

\* ---------------------------------- POST /auth/line/bootstrap and /login-url
\* a link token as the service that signs login links issues it
LinkToken(shop_id, exp) ==
  MkToken("HS256", "ok", Issuer, NoTime, exp, NONE, NONE, shop_id, NONE, NONE,
          "line_login_link")

\* the link tokens a caller may present: good ones for an existing and for a missing
\* shop, one without shop_id, an expired one, one with a broken signature, one of
\* another issuer, and a session token in its place
LinkInputs ==
  { LinkToken("S1", now + 1), LinkToken("S2", now + 1), LinkToken("S3", now + 1),
    LinkToken(NONE, now + 1), LinkToken("S1", now),
    [LinkToken("S1", now + 1) EXCEPT !.sig = "bad"],
    [LinkToken("S1", now + 1) EXCEPT !.iss = "other"],
    bearer }

\* a decode that accepts any typ: the link-token property C18 must not hold of it
decode_link_token_any_typ(tok, t) ==
  IF ~JwtDecodeOk(tok, t) THEN 401
  ELSE 200

\* auth.py 63-76
decode_signed_link_token(tok, t) ==
  IF ~JwtDecodeOk(tok, t) THEN 401
  ELSE IF tok.typ # "line_login_link" THEN 401
  ELSE 200

\* the body {"loginUrl": ...}: the URL carries the state token
LoginUrlResp(state) ==
  MkResp(200, NoToken, NoToken, NONE, NONE, NONE, NONE, << >>, state, NoCtx)

\* auth.py 149-173
auth_line_bootstrap(tok, t) ==
  IF decode_signed_link_token(tok, t) # 200 THEN ErrorResp(decode_signed_link_token(tok, t))
  ELSE IF tok.shop_id = NONE THEN ErrorResp(400)
  ELSE IF ~ShopExists(tok.shop_id) THEN ErrorResp(404)
  ELSE LoginUrlResp(StateToken(tok.shop_id, t))

Bootstrap(p, tok) ==
  /\ Serve(p, MkReq("bootstrap", NONE, NONE, tok, members, members),
           auth_line_bootstrap(tok, now))
  /\ stateTok' = IF auth_line_bootstrap(tok, now).status = 200
                   THEN auth_line_bootstrap(tok, now).state ELSE stateTok

\* auth.py 176-185
LoginUrl(p) ==
  /\ Serve(p, MkReq("login_url", NONE, NONE, NoToken, members, members),
           LoginUrlResp(StateToken(NONE, now)))
  /\ stateTok' = StateToken(NONE, now)

\* ------------------------------------------------------ POST /auth/refresh
\* the refresh cookie a request may carry: none, the client's cookie, its access token
\* in the cookie's place, the cookie with a broken signature, the cookie of another issuer
RefreshInputs ==
  { NoToken, jar, bearer, [jar EXCEPT !.sig = "bad"], [jar EXCEPT !.iss = "other"] }

\* the rotation without the typ test: the refresh property C2 must not hold of it
refresh_any_typ(cookie, t) ==
  IF cookie = NoToken THEN ErrorResp(401)
  ELSE IF ~JwtDecodeOk(cookie, t) THEN ErrorResp(401)
  ELSE MkResp(200,
              create_access_token(Subject(cookie.user_id, cookie.shop_id, cookie.role,
                                          cookie.provider), t),
              create_refresh_token(Subject(cookie.user_id, cookie.shop_id, cookie.role,
                                           cookie.provider), t),
              NONE, NONE, NONE, NONE, << >>, NoToken, NoCtx)

\* a rotation that re-issues the pair without the role: the rotation property C13 must
\* not hold of it
refresh_without_role(cookie, t) ==
  IF cookie = NoToken THEN ErrorResp(401)
  ELSE IF ~JwtDecodeOk(cookie, t) THEN ErrorResp(401)
  ELSE IF cookie.typ # "refresh" THEN ErrorResp(401)
  ELSE MkResp(200,
              create_access_token(Subject(cookie.user_id, cookie.shop_id, NONE,
                                          cookie.provider), t),
              create_refresh_token(Subject(cookie.user_id, cookie.shop_id, NONE,
                                           cookie.provider), t),
              NONE, NONE, NONE, NONE, << >>, NoToken, NoCtx)

\* auth.py 461-488
refresh_access_token(cookie, t) ==
  IF cookie = NoToken THEN ErrorResp(401)
  ELSE IF ~JwtDecodeOk(cookie, t) THEN ErrorResp(401)
  ELSE IF cookie.typ # "refresh" THEN ErrorResp(401)
  ELSE MkResp(200,
              create_access_token(Subject(cookie.user_id, cookie.shop_id, cookie.role,
                                          cookie.provider), t),
              create_refresh_token(Subject(cookie.user_id, cookie.shop_id, cookie.role,
                                           cookie.provider), t),
              NONE, NONE, NONE, NONE, << >>, NoToken, NoCtx)

Refresh(p, cookie) ==
  /\ Serve(p, MkReq("refresh", NONE, NONE, cookie, members, members),
           refresh_access_token(cookie, now))
  /\ UNCHANGED stateTok

\* ------------------------------------------------- POST /auth/line/firebase
\* auth.py 91-103
decode_line_access_token(tok, t) ==
  IF ~JwtDecodeOk(tok, t) THEN 401
  ELSE IF tok.provider # "line" THEN 401
  ELSE 200

BridgeResp(user, shop_id, role) ==
  MkResp(200, CustomToken(user, shop_id, role), NoToken, shop_id, NONE, role, NONE,
         << >>, NoToken, NoCtx)

\* auth.py 491-551: the responses the handler may give (the latest membership is any
\* row of the latest creation time)
auth_line_firebase(raw, shopId, t, ms) ==
  IF raw = NoToken THEN { ErrorResp(401) }
  ELSE IF decode_line_access_token(raw, t) # 200 THEN { ErrorResp(401) }
  ELSE IF raw.user_id = NONE THEN { ErrorResp(401) }
  ELSE LET shop_id == IF shopId # NONE THEN shopId ELSE raw.shop_id IN
       IF shop_id # NONE
         THEN LET rows == MemberRows(ms, shop_id, raw.user_id, "line") IN
              IF Cardinality(rows) > 1 THEN { ErrorResp(500) }
              ELSE IF rows = {} THEN { ErrorResp(403) }
              ELSE { BridgeResp(raw.user_id, shop_id, ms[i].role) : i \in rows }
         ELSE LET rows == UserRows(ms, raw.user_id) IN
              IF rows = {} THEN { ErrorResp(403) }
              ELSE { BridgeResp(raw.user_id, ms[i].shop_id, ms[i].role) :
                       i \in Latest(ms, rows) }

\* the tokens a caller may present as its credential: the one it keeps, its refresh
\* cookie, a shop owner's ID token
BearerInputs ==
  { bearer, jar }
    \cup { FirebaseIdToken(uid, NONE, NONE, NONE, now) : uid \in FirebaseUids }

Bridge(p, raw, shopId) ==
  /\ \E r \in auth_line_firebase(raw, shopId, now, members) :
       Serve(p, MkReq("bridge", NONE, shopId, raw, members, members), r)
  /\ UNCHANGED stateTok

\* ------------------------------------------------------ shop-scoped routes
\* the decision without the role test: the role property C17 must not hold of it
user_can_access_shop_any_role(ms, shop_id, user, roles) ==
  IF ~ShopExists(shop_id) \/ user = NoCtx THEN "deny"
  ELSE IF ShopOwner(shop_id) = user.uid THEN "allow"
  ELSE IF user.provider # "line" THEN "deny"
  ELSE LET rows == MemberRows(ms, shop_id, user.uid, "line") IN
       IF Cardinality(rows) > 1 THEN "error"
       ELSE IF rows = {} THEN "deny"
       ELSE "allow"

\* access.py 9-39; user is the dict of get_current_user; "error" is the exception
\* scalar_one_or_none raises on more than one row
user_can_access_shop(ms, shop_id, user, roles) ==
  IF ~ShopExists(shop_id) \/ user = NoCtx THEN "deny"
  ELSE IF ShopOwner(shop_id) = user.uid THEN "allow"
  ELSE IF user.provider # "line" THEN "deny"
  ELSE LET rows == MemberRows(ms, shop_id, user.uid, "line") IN
       IF Cardinality(rows) > 1 THEN "error"
       ELSE IF rows = {} THEN "deny"
       ELSE IF roles # {}
         THEN IF \E i \in rows : ms[i].role \in roles THEN "allow" ELSE "deny"
         ELSE "allow"

RouteResp(status, ctx) ==
  MkResp(status, NoToken, NoToken, NONE, NONE, NONE, NONE, << >>, NoToken, ctx)

Verdict(v, ctx) ==
  IF v = "allow" THEN RouteResp(200, ctx)
  ELSE IF v = "deny" THEN RouteResp(403, ctx)
  ELSE RouteResp(500, ctx)

\* orders.py 16-60 (and 63-111, 114-166): GET /orders?storeId=
get_orders(tok, storeId, t, ms) ==
  LET user == get_current_user(tok, t) IN
  IF user.status # 200 THEN RouteResp(401, NoCtx)
  ELSE IF ~ShopExists(storeId) THEN RouteResp(404, user)
  ELSE Verdict(user_can_access_shop(ms, storeId, user, {"owner", "staff"}), user)

\* ai_mcp.py 26-41 (and 71-86): POST /mcp/line/broadcast/ai
generate_broadcast_message(tok, storeId, t, ms) ==
  LET user == get_current_user(tok, t) IN
  IF user.status # 200 THEN RouteResp(401, NoCtx)
  ELSE IF ~ShopExists(storeId) THEN RouteResp(404, user)
  ELSE Verdict(user_can_access_shop(ms, storeId, user, {"owner", "staff"}), user)

\* the route without the ownership test: the stream access property C25 must not hold
\* of it
stream_messages_route_any_caller(tok, storeId, t) ==
  LET user == get_current_user(tok, t) IN
  IF user.status # 200 THEN RouteResp(401, NoCtx)
  ELSE IF ~ShopExists(storeId) THEN RouteResp(404, user)
  ELSE RouteResp(200, user)

\* inbox.py 161-196: GET /inbox/stream/{customer_id}?storeId=, up to the stream
stream_messages_route(tok, storeId, t) ==
  LET user == get_current_user(tok, t) IN
  IF user.status # 200 THEN RouteResp(401, NoCtx)
  ELSE IF ~ShopExists(storeId) THEN RouteResp(404, user)
  ELSE IF ShopOwner(storeId) # user.uid THEN RouteResp(403, user)
  ELSE RouteResp(200, user)

\* the check without the comparison of the token's shop: the scope property C26 must
\* not hold of it
ensure_shop_access_any_scope(ms, store_id, auth_ctx) ==
  IF ~ShopExists(store_id) THEN 404
  ELSE IF auth_ctx.auth = "firebase"
    THEN IF ShopOwner(store_id) = auth_ctx.uid THEN 200
         ELSE LET rows == MemberRows(ms, store_id, auth_ctx.uid, "firebase") IN
              IF Cardinality(rows) > 1 THEN 500
              ELSE IF rows = {} \/ \E i \in rows : ms[i].role \notin {"owner", "staff"}
                THEN 403
                ELSE 200
    ELSE LET rows == MemberRows(ms, store_id, auth_ctx.user_id, "line") IN
         IF Cardinality(rows) > 1 THEN 500
         ELSE IF rows = {} \/ \E i \in rows : ms[i].role \notin {"owner", "staff"}
           THEN 403
           ELSE 200

\* sites.py 20-73
ensure_shop_access(ms, store_id, auth_ctx) ==
  IF ~ShopExists(store_id) THEN 404
  ELSE IF auth_ctx.auth = "firebase"
    THEN IF ShopOwner(store_id) = auth_ctx.uid THEN 200
         ELSE LET rows == MemberRows(ms, store_id, auth_ctx.uid, "firebase") IN
              IF Cardinality(rows) > 1 THEN 500
              ELSE IF rows = {} \/ \E i \in rows : ms[i].role \notin {"owner", "staff"}
                THEN 403
                ELSE 200
    ELSE IF auth_ctx.shop_id # NONE /\ auth_ctx.shop_id # store_id THEN 403
    ELSE LET rows == MemberRows(ms, store_id, auth_ctx.user_id, "line") IN
         IF Cardinality(rows) > 1 THEN 500
         ELSE IF rows = {} \/ \E i \in rows : ms[i].role \notin {"owner", "staff"}
           THEN 403
           ELSE 200

\* sites.py 207-243 (and 185-204): POST /sites/publish
publish_site(tok, store_id, t, ms) ==
  LET auth_ctx == get_auth_context(tok, t) IN
  IF auth_ctx.status # 200 THEN RouteResp(401, NoCtx)
  ELSE RouteResp(ensure_shop_access(ms, store_id, auth_ctx), auth_ctx)

\* the user dicts and role sets user_can_access_shop may be called with: a uid with
\* or without the provider key; roles None (or empty), {"owner"}, {"owner", "staff"}
Callers ==
  { MkCtx(200, NONE, uid, NONE, NONE, NONE, provider) :
      uid \in Users \cup {"F1"}, provider \in {"line", NONE} }
RoleSets == { {}, {"owner"}, {"owner", "staff"} }

\* one call of user_can_access_shop(session, shop, user, roles) on the current table
AccessCheck(p, user, shop, roles) ==
  /\ Serve(p, [op |-> "access", user |-> user.uid, shop |-> shop, token |-> NoToken,
               pre |-> members, post |-> members, at |-> 0, roles |-> roles],
           Verdict(user_can_access_shop(members, shop, user, roles), user))
  /\ UNCHANGED stateTok

GetOrders(p, tok, shop) ==
  /\ Serve(p, MkReq("orders", NONE, shop, tok, members, members),
           get_orders(tok, shop, now, members))
  /\ UNCHANGED stateTok

BroadcastAi(p, tok, shop) ==
  /\ Serve(p, MkReq("ai_mcp", NONE, shop, tok, members, members),
           generate_broadcast_message(tok, shop, now, members))
  /\ UNCHANGED stateTok

InboxStream(p, tok, shop) ==
  /\ Serve(p, MkReq("inbox", NONE, shop, tok, members, members),
           stream_messages_route(tok, shop, now))
  /\ UNCHANGED stateTok

PublishSite(p, tok, shop) ==
  /\ Serve(p, MkReq("publish", NONE, shop, tok, members, members),
           publish_site(tok, shop, now, members))
  /\ UNCHANGED stateTok

\* ------------------------------------- services/pubsub_service.py: the stream
Customers == {"C1", "C2"}
\* the timeouts a stream is opened with: a short one and the default
StreamTimeouts == {1, DefaultTimeout}
\* the clock stops two waits after the default timeout
MaxClock == DefaultTimeout + 2 * ReceiveWait

\* the JSON data of an event
Event(shop_id, customer_id) == [shop_id |-> shop_id, customer_id |-> customer_id]
Events == { Event(s, c) : s \in ExistingShops, c \in Customers }

\* a filter that compares the shop only: the stream property C5 must not hold of it
MatchesShop(data, shop_id, customer_id) == data.shop_id = shop_id

\* pubsub_service.py 72-73: the filter of message_callback
Matches(data, shop_id, customer_id) ==
  data.shop_id = shop_id /\ data.customer_id = customer_id

\* pubsub_service.py 115-117: callback(data) as message_callback calls it, on a thread
\* of the subscriber. asyncio.create_task finds no running event loop on that thread
\* and raises RuntimeError: nothing is put in the queue
callback(q, data) == [queue |-> q, raised |-> TRUE]

\* inbox.py 200-205: the SSE event of a message, and the event of the except clause
DataEvent(e) == [kind |-> "data", data |-> e]
ErrorMarker == [kind |-> "error", data |-> NONE]

\* an event_generator without the except clause: the error property C19 must not hold
\* of it
propagate_stream_error(sent) == sent

\* inbox.py 204-205: except Exception as e: yield the error event; the generator ends
on_stream_error(sent) == Append(sent, ErrorMarker)

\* the event loop can run another task: no subscription task is inside the blocking
\* streaming_pull_future.result(), nor first in the loop's ready queue
LoopFree ==
  /\ sub \notin {"scheduled", "blocking"}
  /\ peer.sub \notin {"scheduled", "blocking"}

\* pubsub_service.py 128-129: the earlier stream is past its timeout
PeerExpired == clock - peer.startTime > peer.filter.timeout

\* pubsub_service.py 128-131: the loop's timeout check, then the next wait_for
LoopCheck ==
  IF clock - startTime > filter.timeout
    THEN /\ phase' = "finally"
         /\ outcome' = "timeout"
         /\ UNCHANGED deadline
    ELSE /\ phase' = "waiting"
         /\ deadline' = clock + ReceiveWait
         /\ UNCHANGED outcome

\* pubsub_service.py 113-135: the generator runs to its first await
StreamOpen(shop_id, customer_id, timeout) ==
  /\ phase = "closed"
  /\ peer.sub \notin {"scheduled", "blocking"}
  /\ filter' = [shop_id |-> shop_id, customer_id |-> customer_id, timeout |-> timeout]
  /\ queue' = << >>
  /\ sub' = "scheduled"
  /\ startTime' = clock
  /\ IF clock - clock > timeout
       THEN phase' = "finally" /\ outcome' = "timeout" /\ UNCHANGED deadline
       ELSE phase' = "waiting" /\ deadline' = clock + ReceiveWait /\ UNCHANGED outcome
  /\ UNCHANGED << authVars, pushed, history, peer, pull, clientGone, clock, bus, delivery, handed, yielded,
                  emitted >>

\* pubsub_service.py 83-91: the subscription task's first step opens the streaming
\* pull and calls streaming_pull_future.result() on the event loop's thread
SubscribeFiltered ==
  /\ sub = "scheduled"
  /\ pull' = "active"
  /\ sub' = "blocking"
  /\ UNCHANGED << authVars, pushed, history, peer, phase, clientGone, clock, startTime, deadline, filter, bus,
                  delivery, handed, queue, yielded, emitted, outcome >>

\* the streaming pull fails: result() raises the pull's error (the except TimeoutError
\* clause of lines 92-94 is not entered: result() is called without a timeout)
PullFail ==
  /\ pull = "active"
  /\ pull' = "failed"
  /\ sub' = IF sub = "blocking" THEN "failed" ELSE sub
  /\ UNCHANGED << authVars, pushed, history, peer, phase, clientGone, clock, startTime, deadline, filter, bus,
                  delivery, handed, queue, yielded, emitted, outcome >>

\* an event is published on the topic while a stream is open
Publish(e) ==
  /\ phase = "waiting" \/ peer.phase = "waiting"
  /\ Len(bus) < MaxPublished
  /\ bus' = Append(bus, e)
  /\ delivery' = Append(delivery, "pending")
  /\ UNCHANGED << authVars, pushed, history, peer, phase, sub, pull, clientGone, clock, startTime, deadline,
                  filter, handed, queue, yielded, emitted, outcome >>

\* pubsub_service.py 66-81: the subscriber delivers event i to message_callback
MessageCallback(i) ==
  /\ pull = "active"
  /\ i \in 1 .. Len(bus)
  /\ delivery[i] = "pending"
  /\ IF Matches(bus[i], filter.shop_id, filter.customer_id)
       THEN /\ handed' = Append(handed, bus[i])
            /\ queue' = callback(queue, bus[i]).queue
            /\ delivery' = [delivery EXCEPT ![i] =
                              IF callback(queue, bus[i]).raised THEN "nacked" ELSE "acked"]
       ELSE /\ delivery' = [delivery EXCEPT ![i] = "acked"]
            /\ UNCHANGED << handed, queue >>
  /\ UNCHANGED << authVars, pushed, history, peer, phase, sub, pull, clientGone, clock, startTime, deadline,
                  filter, bus, yielded, emitted, outcome >>

\* pubsub_service.py 128-140: wait_for(queue.get(), 10.0) returns an event, which is
\* yielded, or times out; either way the loop goes back to its timeout check
WaitFor ==
  /\ phase = "waiting"
  /\ LoopFree
  /\ IF queue # << >>
       THEN /\ yielded' = Append(yielded, Head(queue))
            /\ emitted' = Append(emitted, DataEvent(Head(queue)))
            /\ queue' = Tail(queue)
       ELSE /\ clock >= deadline
            /\ UNCHANGED << yielded, emitted, queue >>
  /\ LoopCheck
  /\ UNCHANGED << authVars, pushed, history, peer, sub, pull, clientGone, clock, startTime, filter, bus,
                  delivery, handed >>

\* the client closes the connection of the stream
ClientDisconnect ==
  /\ phase = "waiting"
  /\ ~clientGone
  /\ clientGone' = TRUE
  /\ UNCHANGED << authVars, pushed, history, peer, phase, sub, pull, clock, startTime, deadline, filter, bus,
                  delivery, handed, queue, yielded, emitted, outcome >>

\* the server sees the disconnect and cancels the generator at its await
HandleDisconnect ==
  /\ clientGone
  /\ phase = "waiting"
  /\ LoopFree
  /\ phase' = "finally"
  /\ outcome' = "cancelled"
  /\ UNCHANGED << authVars, pushed, history, peer, sub, pull, clientGone, clock, startTime, deadline, filter, bus,
                  delivery, handed, queue, yielded, emitted >>

\* pubsub_service.py 142-148 and inbox.py 203-205: subscription_task.cancel() and the
\* await of the task, which raises the task's error if it failed (event_generator then
\* sends the error event); the streaming pull is not touched
Finally ==
  /\ phase = "finally"
  /\ LoopFree
  /\ phase' = "ended"
  /\ sub' = IF sub = "failed" THEN sub ELSE "cancelled"
  /\ outcome' = IF sub = "failed" THEN "error"
                ELSE IF outcome = "timeout" THEN "normal" ELSE "cancelled"
  /\ emitted' = IF sub = "failed" THEN on_stream_error(emitted) ELSE emitted
  /\ UNCHANGED << authVars, pushed, history, peer, pull, clientGone, clock, startTime, deadline, filter, bus,
                  delivery, handed, queue, yielded >>

\* time passes, whether or not the event loop runs; a free loop runs a timer that is
\* due before another ReceiveWait seconds pass
Advance ==
  /\ phase = "waiting"
  /\ ~(LoopFree /\ clock >= deadline)
  /\ ~(LoopFree /\ peer.phase = "waiting" /\ PeerExpired)
  /\ clock + ReceiveWait <= MaxClock
  /\ clock' = clock + ReceiveWait
  /\ UNCHANGED << authVars, pushed, history, peer, phase, sub, pull, clientGone, startTime, deadline, filter, bus,
                  delivery, handed, queue, yielded, emitted, outcome >>

\* inbox.py 201 and pubsub_service.py 113-135: an earlier request opens a stream with
\* the route's default timeout on the same PubSubService and subscription
PeerOpen(shop_id, customer_id) ==
  /\ phase = "closed"
  /\ peer.phase = "closed"
  /\ peer' = [phase |-> "waiting", sub |-> "scheduled", pull |-> "none",
              filter |-> [shop_id |-> shop_id, customer_id |-> customer_id,
                          timeout |-> DefaultTimeout],
              startTime |-> clock]
  /\ UNCHANGED << authVars, pushed, history, phase, sub, pull, clientGone, clock, startTime, deadline,
                  filter, bus, delivery, handed, queue, yielded, emitted, outcome >>

\* pubsub_service.py 83-91: the earlier stream's subscription task opens its streaming
\* pull on the shared subscription and blocks the event loop in result()
PeerSubscribe ==
  /\ peer.sub = "scheduled"
  /\ peer' = [peer EXCEPT !.sub = "blocking", !.pull = "active"]
  /\ UNCHANGED << authVars, pushed, history, phase, sub, pull, clientGone, clock, startTime, deadline,
                  filter, bus, delivery, handed, queue, yielded, emitted, outcome >>

\* the earlier stream's streaming pull fails and its result() raises
PeerPullFail ==
  /\ peer.pull = "active"
  /\ peer' = [peer EXCEPT !.sub = "failed", !.pull = "failed"]
  /\ UNCHANGED << authVars, pushed, history, phase, sub, pull, clientGone, clock, startTime, deadline,
                  filter, bus, delivery, handed, queue, yielded, emitted, outcome >>

\* pubsub_service.py 66-81: the subscriber delivers event i to the message_callback of
\* the earlier stream, whose callback(data) raises as the other one's does
PeerMessageCallback(i) ==
  /\ peer.pull = "active"
  /\ i \in 1 .. Len(bus)
  /\ delivery[i] = "pending"
  /\ delivery' = [delivery EXCEPT ![i] =
                    IF Matches(bus[i], peer.filter.shop_id, peer.filter.customer_id)
                      THEN IF callback(<< >>, bus[i]).raised THEN "nacked" ELSE "acked"
                      ELSE "acked"]
  /\ UNCHANGED << authVars, pushed, history, phase, sub, pull, clientGone, clock, startTime, deadline,
                  filter, bus, handed, queue, yielded, emitted, outcome, peer >>

\* pubsub_service.py 128-148: the earlier stream's wait_for times out past its timeout
\* and the stream ends
PeerEnd ==
  /\ peer.phase = "waiting"
  /\ LoopFree
  /\ PeerExpired
  /\ peer' = [peer EXCEPT !.phase = "ended"]
  /\ UNCHANGED << authVars, pushed, history, phase, sub, pull, clientGone, clock, startTime, deadline,
                  filter, bus, delivery, handed, queue, yielded, emitted, outcome >>

\* inbox.py 161-215 and pubsub_service.py 113-135: the whole request of
\* GET /inbox/stream/{customer_id}: the checks of the route, then the StreamingResponse
\* whose event_generator starts stream_messages(storeId, customer_id) with the default
\* timeout; the model has room for one stream of this kind
InboxStreamOpen(p, tok, storeId, customer_id) ==
  LET answer == stream_messages_route(tok, storeId, now)
      r == MkReq("stream", NONE, storeId, tok, members, members)
  IN
  /\ Free(p)
  /\ nreq < Quota(p)
  /\ LoopFree
  /\ answer.status = 200 => phase = "closed"
  /\ nreq' = nreq + 1
  /\ req' = [req EXCEPT ![p] = [r EXCEPT !.at = now]]
  /\ resp' = [resp EXCEPT ![p] = answer]
  /\ pc' = [pc EXCEPT ![p] = "done"]
  /\ Keep(answer)
  /\ session' = Track(r, answer)
  /\ UNCHANGED << members, now, firstLogin, stateTok >>
  /\ IF answer.status = 200
       THEN /\ filter' = [shop_id |-> storeId, customer_id |-> customer_id,
                          timeout |-> DefaultTimeout]
            /\ queue' = << >>
            /\ sub' = "scheduled"
            /\ startTime' = clock
            /\ phase' = "waiting"
            /\ deadline' = clock + ReceiveWait
            /\ UNCHANGED << pull, clientGone, clock, bus, delivery, handed, yielded,
                            emitted, outcome, pushed, history, peer >>
       ELSE UNCHANGED streamVars

\* ------------------------------------- inbox.py: POST /inbox/send/{customer_id}
\* shop.line_config holds a channelAccessToken
LineConfigured(s) == s = "S1"

\* select(Customer).where(customer_id).where(shop_id) ... scalar_one_or_none()
CustomerExists(s, c) == s = "S1" /\ c \in Customers

\* the customers a message is sent to: the known ones and an unknown one
SendCustomers == Customers \cup {"C3"}

\* inbox.py 242-276: the checks of send_message; 0 when the request goes on to the push
send_refusal(user, storeId, customer_id) ==
  IF user.status # 200 THEN 401
  ELSE IF ~ShopExists(storeId) THEN 404
  ELSE IF ShopOwner(storeId) # user.uid THEN 403
  ELSE IF ~LineConfigured(storeId) THEN 400
  ELSE IF ~CustomerExists(storeId, customer_id) THEN 404
  ELSE 0

\* the message of a send request, as it is pushed, stored and published
Outbound(r) == Event(r.shop, r.user)

\* inbox.py 218-276: the request runs to the push, or is refused; the customer of the
\* request is kept in the user field
SendStart(p, tok, storeId, customer_id) ==
  LET user == get_current_user(tok, now)
      r == MkReq("send", customer_id, storeId, tok, members, members)
  IN
  /\ LoopFree
  /\ Len(pushed) < MaxPublished
  /\ IF send_refusal(user, storeId, customer_id) # 0
       THEN /\ Serve(p, r, RouteResp(send_refusal(user, storeId, customer_id), user))
            /\ UNCHANGED stateTok
       ELSE /\ Begin(p, r, "send_push")
            /\ UNCHANGED << members, now, jar, bearer, stateTok >>

\* a push whose failure is swallowed: the send order property C30 must not hold of it
SendPushIgnoringFailure(p) ==
  /\ pc[p] = "send_push"
  /\ LoopFree
  /\ \E accepted \in BOOLEAN :
       /\ pushed' = IF accepted THEN Append(pushed, Outbound(req[p])) ELSE pushed
       /\ pc' = [pc EXCEPT ![p] = "send_commit"]
       /\ UNCHANGED << members, req, resp, jar, bearer, firstLogin, session, history,
                       bus, delivery, consumerVars >>
  /\ UNCHANGED << now, nreq, stateTok >>

\* inbox.py 278-289: line_bot_api.push_message(...); any exception becomes a 500
SendPush(p) ==
  /\ pc[p] = "send_push"
  /\ LoopFree
  /\ \E accepted \in BOOLEAN :
       IF accepted
         THEN /\ pushed' = Append(pushed, Outbound(req[p]))
              /\ pc' = [pc EXCEPT ![p] = "send_commit"]
              /\ UNCHANGED << members, req, resp, jar, bearer, firstLogin, session,
                              history, bus, delivery, consumerVars >>
         ELSE Finish(p, ErrorResp(500), members)
  /\ UNCHANGED << now, nreq, stateTok >>

\* inbox.py 291-301: session.add(chat_event); await session.commit(), which may raise
SendCommit(p) ==
  /\ pc[p] = "send_commit"
  /\ LoopFree
  /\ \E committed \in BOOLEAN :
       IF committed
         THEN /\ history' = Append(history, Outbound(req[p]))
              /\ pc' = [pc EXCEPT ![p] = "send_publish"]
              /\ UNCHANGED << members, req, resp, jar, bearer, firstLogin, session,
                              pushed, bus, delivery, consumerVars >>
         ELSE Finish(p, ErrorResp(500), members)
  /\ UNCHANGED << now, nreq, stateTok >>

\* inbox.py 303-316 and pubsub_service.py 27-50: await publish_message(...), which
\* raises when the publish fails; then the success response
SendPublish(p) ==
  /\ pc[p] = "send_publish"
  /\ LoopFree
  /\ \E published \in BOOLEAN :
       IF published
         THEN /\ bus' = Append(bus, Outbound(req[p]))
              /\ delivery' = Append(delivery, "pending")
              /\ pc' = [pc EXCEPT ![p] = "done"]
              /\ resp' = [resp EXCEPT ![p] = RouteResp(200, NoCtx)]
              /\ UNCHANGED << members, req, jar, bearer, firstLogin, session, pushed,
                              history, consumerVars >>
         ELSE Finish(p, ErrorResp(500), members)
  /\ UNCHANGED << now, nreq, stateTok >>

\* the steps of a direct login with a shopId
LoginStep(p) ==
  \/ LoginMemberSelect(p)
  \/ LoginShopSelect(p)
  \/ LoginInsert(p)

\* the steps of the OAuth callback after the state was verified
CallbackStep(p) ==
  \/ CallbackExchange(p)
  \/ CallbackMemberSelect(p)
  \/ CallbackInsert(p)
  \/ CallbackList(p)

\* the steps of the three login flows that read and write the membership table
FlowStep(p) ==
  \/ LoginStep(p)
  \/ LoginList(p)
  \/ SelectMemberSelect(p)
  \/ SelectShopSelect(p)
  \/ SelectInsert(p)
  \/ CallbackStep(p)

\* concurrent requests to the login flows
Next ==
  \/ \E p \in Procs, u \in ConcUsers, s \in ShopIds \cup {NONE} : LoginStart(p, u, s)
  \/ \E p \in Procs, u \in ConcUsers, s \in ShopIds : SelectStart(p, u, s)
  \/ \E p \in Procs, st \in StateInputs : CallbackStart(p, st)
  \/ \E p \in Procs, tok \in LinkInputs : Bootstrap(p, tok)
  \/ \E p \in Procs : LoginUrl(p)
  \/ \E p \in Procs : FlowStep(p)

\* one client whose requests to the login flows are served one after the other
SeqNext ==
  \/ \E p \in SeqProcs, u \in Users, s \in ShopIds \cup {NONE} : LoginStart(p, u, s)
  \/ \E p \in SeqProcs, u \in Users, s \in ShopIds : SelectStart(p, u, s)
  \/ \E p \in SeqProcs, st \in StateInputs : CallbackStart(p, st)
  \/ \E p \in SeqProcs, tok \in LinkInputs : Bootstrap(p, tok)
  \/ \E p \in SeqProcs : LoginUrl(p)
  \/ \E p \in SeqProcs, c \in RefreshInputs : Refresh(p, c)
  \/ \E p \in SeqProcs : FlowStep(p)

\* the tokens a client holds: its access token and its refresh cookie
HeldTokens == { bearer, jar }

\* one client that logs in and then presents what it holds where a token is verified,
\* while the clock runs
TokenNext ==
  \/ Tick
  \/ \E p \in TokenProcs, u \in ConcUsers, s \in ExistingShops : LoginStart(p, u, s)
  \/ \E p \in TokenProcs : LoginStep(p)
  \/ \E p \in TokenProcs, c \in RefreshInputs : Refresh(p, c)
  \/ \E p \in TokenProcs, tok \in HeldTokens \cup {NoToken}, s \in ExistingShops \cup {NONE} :
       Bridge(p, tok, s)
  \/ \E p \in TokenProcs, tok \in BearerInputs, s \in ShopIds : GetOrders(p, tok, s)
  \/ \E p \in TokenProcs, tok \in BearerInputs, s \in ExistingShops : BroadcastAi(p, tok, s)
  \/ \E p \in TokenProcs, tok \in BearerInputs, s \in ExistingShops : InboxStream(p, tok, s)
  \/ \E p \in TokenProcs, tok \in BearerInputs, s \in ShopIds : PublishSite(p, tok, s)

\* one browser that walks the OAuth flow and presents the tokens it holds where a
\* token is verified, while the clock runs
VerifyNext ==
  \/ Tick
  \/ \E p \in VerifyProcs, tok \in LinkInputs : Bootstrap(p, tok)
  \/ \E p \in VerifyProcs : LoginUrl(p)
  \/ \E p \in VerifyProcs, st \in StateInputs : CallbackStart(p, st)
  \/ \E p \in VerifyProcs : CallbackStep(p)
  \/ \E p \in VerifyProcs, c \in RefreshInputs : Refresh(p, c)
  \/ \E p \in VerifyProcs, tok \in HeldTokens : Bridge(p, tok, NONE)
  \/ \E p \in VerifyProcs, tok \in HeldTokens, s \in ExistingShops : PublishSite(p, tok, s)

\* one stream of the inbox, the bus and the client of the stream
StreamNext ==
  \/ \E s \in ExistingShops, t \in StreamTimeouts : StreamOpen(s, "C1", t)
  \/ SubscribeFiltered
  \/ PullFail
  \/ \E e \in Events : Publish(e)
  \/ \E i \in 1 .. MaxPublished + 1 : MessageCallback(i)
  \/ WaitFor
  \/ ClientDisconnect
  \/ HandleDisconnect
  \/ Finally
  \/ Advance

\* logins fill the table, and access decisions are taken on it
AccessNext ==
  \/ \E p \in AccessProcs, u \in Users, s \in ExistingShops : LoginStart(p, u, s)
  \/ \E p \in AccessProcs : LoginStep(p)
  \/ \E p \in AccessProcs, user \in Callers, s \in ShopIds, roles \in RoleSets :
       AccessCheck(p, user, s, roles)

\* the stream starts on a server with an empty membership table
StreamInit == Init /\ members = << >>

Spec == Init /\ [][Next]_vars

SeqSpec == Init /\ [][SeqNext]_vars

TokenSpec == Init /\ [][TokenNext]_vars

VerifySpec == Init /\ [][VerifyNext]_vars

AccessSpec == Init /\ [][AccessNext]_vars

StreamSpec == StreamInit /\ [][StreamNext]_vars

\* the event loop runs a task that is ready, the subscriber's threads run the callback
\* of a delivered event, and time passes; the bus and the client are free to do nothing
FairStreamSpec ==
  /\ StreamSpec
  /\ WF_vars(SubscribeFiltered)
  /\ WF_vars(WaitFor)
  /\ WF_vars(HandleDisconnect)
  /\ WF_vars(Finally)
  /\ WF_vars(Advance)
  /\ WF_vars(\E i \in 1 .. MaxPublished + 1 : MessageCallback(i))

\* the stream with the events of its own shop only, for the conversation of the stream
\* and for another one
ShopStreamNext ==
  \/ \E s \in ExistingShops, t \in StreamTimeouts : StreamOpen(s, "C1", t)
  \/ SubscribeFiltered
  \/ PullFail
  \/ \E c \in Customers : Publish(Event(filter.shop_id, c))
  \/ \E i \in 1 .. MaxPublished + 1 : MessageCallback(i)
  \/ WaitFor
  \/ ClientDisconnect
  \/ HandleDisconnect
  \/ Finally
  \/ Advance

\* the same scheduling as FairStreamSpec
FairShopStreamSpec ==
  /\ StreamInit /\ [][ShopStreamNext]_vars
  /\ WF_vars(SubscribeFiltered)
  /\ WF_vars(WaitFor)
  /\ WF_vars(HandleDisconnect)
  /\ WF_vars(Finally)
  /\ WF_vars(Advance)
  /\ WF_vars(\E i \in 1 .. MaxPublished + 1 : MessageCallback(i))

\* two streams of one process on the service's single subscription: the earlier one
\* for any conversation, the later one for conversation C1
SharedNext ==
  \/ \E s \in ExistingShops, c \in Customers : PeerOpen(s, c)
  \/ PeerSubscribe
  \/ PeerPullFail
  \/ \E i \in 1 .. MaxPublished + 1 : PeerMessageCallback(i)
  \/ PeerEnd
  \/ StreamNext

SharedSpec == StreamInit /\ [][SharedNext]_vars

\* the bearer tokens of the stream route's callers: the ID tokens of the owner of S1
\* and of the owner of S2
StreamCallers == { FirebaseIdToken(uid, NONE, NONE, NONE, now) : uid \in FirebaseUids }

\* the shops the stream is requested for: an existing one and a missing one
StreamShops == {"S1", "S3"}

\* requests to the stream route, the stream they open, and the bus
InboxNext ==
  \/ \E p \in TokenProcs, tok \in StreamCallers, s \in StreamShops :
       InboxStreamOpen(p, tok, s, "C1")
  \/ SubscribeFiltered
  \/ PullFail
  \/ \E c \in Customers : Publish(Event(filter.shop_id, c))
  \/ \E i \in 1 .. MaxPublished + 1 : MessageCallback(i)
  \/ WaitFor
  \/ ClientDisconnect
  \/ HandleDisconnect
  \/ Finally
  \/ Advance

InboxSpec == StreamInit /\ [][InboxNext]_vars

\* requests to the send action, served one after the other
SendNext ==
  \/ \E p \in TokenProcs, tok \in StreamCallers \cup {NoToken}, s \in ShopIds,
          c \in SendCustomers : SendStart(p, tok, s, c)
  \/ \E p \in TokenProcs : SendPush(p)
  \/ \E p \in TokenProcs : SendCommit(p)
  \/ \E p \in TokenProcs : SendPublish(p)

SendSpec == StreamInit /\ [][SendNext]_vars

\* ================================================================== claims
\* a request that handler p has answered
Answered(p, ops) == pc[p] = "done" /\ req[p].op \in ops

\* tok is a token create_refresh_token produces (for some subject, at some time)
IsRefreshToken(tok) ==
  /\ tok.typ = "refresh"
  /\ tok = create_refresh_token(Subject(tok.user_id, tok.shop_id, tok.role, tok.provider),
                                tok.iat)

\* tok is a token create_access_token produces
IsAccessToken(tok) ==
  /\ tok.typ = NONE
  /\ tok = create_access_token(Subject(tok.user_id, tok.shop_id, tok.role, tok.provider),
                               tok.iat)

\* C1: a refresh token presented as the bearer credential of a route that resolves it
\* with get_auth_context (site publish), or as the token of POST /auth/line/firebase, is
\* answered 401, with no auth context and no custom token.
C1_RefreshTokenRejected ==
  \A p \in TokenProcs :
    Answered(p, {"publish", "bridge"}) /\ IsRefreshToken(req[p].token)
      => /\ resp[p].status = 401
         /\ resp[p].ctx = NoCtx
         /\ resp[p].token = NoToken

\* the cookie of a refresh request is one the endpoint must refuse: missing, of a bad
\* signature or issuer, expired when the request arrived, or not of typ refresh
BadRefreshCookie(c, t) ==
  \/ c = NoToken
  \/ c.alg # "HS256"
  \/ c.sig # "ok"
  \/ c.iss # Issuer
  \/ (c.exp # NoTime /\ c.exp <= t)
  \/ c.typ # "refresh"

\* C2: POST /auth/refresh answers 401, returns no access token and sets no cookie when
\* the refresh cookie is missing, badly signed, of another issuer, expired or not of
\* typ refresh (so for every access token).
C2_RefreshFailsClosed ==
  \A p \in TokenProcs :
    Answered(p, {"refresh"}) /\ BadRefreshCookie(req[p].token, req[p].at)
      => /\ resp[p].status = 401
         /\ resp[p].token = NoToken
         /\ resp[p].cookie = NoToken

\* an unexpired access token of a login was sent as the refresh cookie and refused
C2_Witness ==
  \E p \in TokenProcs :
    /\ Answered(p, {"refresh"})
    /\ IsAccessToken(req[p].token)
    /\ JwtDecodeOk(req[p].token, req[p].at)
    /\ resp[p].status = 401

\* C3: the membership table never holds two rows of the same (shop_id, user_id,
\* provider), whatever the interleaving of concurrent logins, selections and callbacks.
C3_OneRowPerMember ==
  \A i, j \in 1 .. Len(members) :
    /\ members[i].shop_id = members[j].shop_id
    /\ members[i].user_id = members[j].user_id
    /\ members[i].auth_provider = members[j].auth_provider
    => i = j

\* the shop-scoped routes
RouteOps == {"orders", "ai_mcp", "inbox", "publish"}

\* the caller is the shop's owner: a primary-provider identity whose uid is owner_uid
CallerOwns(tok, t, shop) ==
  /\ VerifyIdTokenOk(tok, t)
  /\ tok.provider = NONE
  /\ ShopExists(shop)
  /\ ShopOwner(shop) = tok.uid

\* the chat user a credential stands for: the subject of an unexpired access token of
\* a login, or the uid of a bridged session
ChatUser(tok, t) ==
  IF IsAccessToken(tok) /\ JwtDecodeOk(tok, t) /\ tok.provider = "line" THEN tok.user_id
  ELSE IF VerifyIdTokenOk(tok, t) /\ tok.provider = "line" THEN tok.uid
  ELSE NONE

\* the caller is a chat identity with a membership of the shop in an allowed role
CallerIsMember(tok, t, shop, ms) ==
  /\ ChatUser(tok, t) # NONE
  /\ ShopExists(shop)
  /\ \E i \in 1 .. Len(ms) : /\ ms[i].shop_id = shop
                             /\ ms[i].user_id = ChatUser(tok, t)
                             /\ ms[i].auth_provider = "line"
                             /\ ms[i].role \in Roles

\* C4: each shop-scoped route (orders, AI, inbox, site publish) admits the caller if and
\* only if the caller owns the shop by uid or is a chat member of it in an allowed role.
C4_OwnerOrMemberAdmitted ==
  \A p \in TokenProcs :
    Answered(p, RouteOps)
      => (resp[p].status = 200
            <=> \/ CallerOwns(req[p].token, req[p].at, req[p].shop)
                \/ CallerIsMember(req[p].token, req[p].at, req[p].shop, req[p].pre))

\* the line memberships of a user in table ms
MembershipsOf(ms, user) ==
  { i \in 1 .. Len(ms) : ms[i].user_id = user /\ ms[i].auth_provider = "line" }

\* the response carries the token pair of membership row m
IssuesPairFor(r, m) ==
  /\ r.status = 200
  /\ r.shopId = m.shop_id
  /\ r.role = m.role
  /\ IsAccessToken(r.token)
  /\ IsRefreshToken(r.cookie)
  /\ \A tok \in {r.token, r.cookie} :
       /\ tok.user_id = m.user_id
       /\ tok.shop_id = m.shop_id
       /\ tok.role = m.role
       /\ tok.provider = "line"

\* C8: a login without shopId fails with 403 and no token when the user has no
\* membership, issues the token pair of the membership when there is exactly one, and
\* with two or more answers requiresSelection with every membership listed as
\* (shopId, shopName, role), no access token and no refresh cookie.
C8_LoginWithoutShop ==
  \A p \in SeqProcs :
    Answered(p, {"login"}) /\ req[p].shop = NONE
      => LET mine == MembershipsOf(req[p].pre, req[p].user) IN
         /\ mine = {} => /\ resp[p].status = 403
                         /\ resp[p].token = NoToken
                         /\ resp[p].cookie = NoToken
         /\ Cardinality(mine) = 1 =>
              /\ \A i \in mine : IssuesPairFor(resp[p], req[p].pre[i])
              /\ resp[p].requiresSelection = "false"
         /\ Cardinality(mine) >= 2 =>
              /\ resp[p].requiresSelection = "true"
              /\ resp[p].token = NoToken
              /\ resp[p].cookie = NoToken
              /\ Len(resp[p].shops) = Cardinality(mine)
              /\ \A i \in mine :
                   \E k \in 1 .. Len(resp[p].shops) :
                     resp[p].shops[k] = [shopId |-> req[p].pre[i].shop_id,
                                         shopName |-> ShopName(req[p].pre[i].shop_id),
                                         role |-> req[p].pre[i].role]

\* a login without shopId of a user with two memberships was answered
C8_Witness ==
  \E p \in SeqProcs :
    /\ Answered(p, {"login"})
    /\ req[p].shop = NONE
    /\ Cardinality(MembershipsOf(req[p].pre, req[p].user)) >= 2
    /\ Len(resp[p].shops) >= 2

\* the line memberships of (user, shop) in table ms
MembershipsIn(ms, user, shop) ==
  { i \in MembershipsOf(ms, user) : ms[i].shop_id = shop }

\* C9: a login with a shopId issues the tokens of the user's membership of that shop,
\* writing nothing, when there is one; creates exactly one owner row and issues its
\* tokens when the shop exists and there is none; and fails with 404, no token and no
\* row when the shop does not exist.
C9_LoginWithShop ==
  \A p \in SeqProcs :
    Answered(p, {"login"}) /\ req[p].shop # NONE
      => LET pre == req[p].pre
             post == req[p].post
             mine == MembershipsIn(pre, req[p].user, req[p].shop) IN
         /\ mine # {} => /\ \E i \in mine : IssuesPairFor(resp[p], pre[i])
                         /\ post = pre
         /\ mine = {} /\ req[p].shop \in ExistingShops =>
              /\ Len(post) = Len(pre) + 1
              /\ SubSeq(post, 1, Len(pre)) = pre
              /\ post[Len(post)].shop_id = req[p].shop
              /\ post[Len(post)].user_id = req[p].user
              /\ post[Len(post)].role = "owner"
              /\ post[Len(post)].auth_provider = "line"
              /\ IssuesPairFor(resp[p], post[Len(post)])
         /\ mine = {} /\ req[p].shop \notin ExistingShops =>
              /\ resp[p].status = 404
              /\ resp[p].token = NoToken
              /\ resp[p].cookie = NoToken
              /\ post = pre

\* a login created the owner row of a user in a shop that already had another member
C9_Witness ==
  \E p \in SeqProcs :
    /\ Answered(p, {"login"})
    /\ req[p].shop \in ExistingShops
    /\ MembershipsIn(req[p].pre, req[p].user, req[p].shop) = {}
    /\ \E j \in 1 .. Len(req[p].pre) : /\ req[p].pre[j].shop_id = req[p].shop
                                       /\ req[p].pre[j].user_id # req[p].user
    /\ Len(req[p].post) = Len(req[p].pre) + 1
    /\ resp[p].role = "owner"

\* C10: once a login with a shopId has created the user's owner row, every further
\* login of that user and shop returns the same shopId and role and leaves the
\* membership table as it was.
C10_RepeatLoginIdempotent ==
  \A p \in SeqProcs :
    /\ Answered(p, {"login"})
    /\ firstLogin.user # NONE
    /\ req[p].user = firstLogin.user
    /\ req[p].shop = firstLogin.shop
    => /\ resp[p].status = 200
       /\ resp[p].shopId = firstLogin.shopId
       /\ resp[p].role = firstLogin.role
       /\ firstLogin.role = "owner"
       /\ firstLogin.repeats >= 1 => req[p].post = req[p].pre

\* the login that created the owner row was repeated twice
C10_Witness ==
  \E p \in SeqProcs :
    /\ Answered(p, {"login"})
    /\ req[p].user = firstLogin.user
    /\ req[p].shop = firstLogin.shop
    /\ firstLogin.repeats >= 2
    /\ resp[p].status = 200

\* the events of a sequence
Range(q) == { q[k] : k \in 1 .. Len(q) }

\* C5: a stream opened for (shop, conversation) never yields an event of another shop
\* or of another conversation: every event passed to the stream's callback, waiting in
\* its queue or yielded carries the stream's shop_id and customer_id.
C5_StreamYieldsOnlyItsConversation ==
  \A e \in Range(handed) \cup Range(queue) \cup Range(yielded) :
    e.shop_id = filter.shop_id /\ e.customer_id = filter.customer_id

\* the callback inspected an event of the stream's shop but of another conversation,
\* and an event of the stream's own conversation
C5_Witness ==
  /\ \E i \in 1 .. Len(bus) : /\ delivery[i] # "pending"
                              /\ bus[i].shop_id = filter.shop_id
                              /\ bus[i].customer_id # filter.customer_id
  /\ \E i \in 1 .. Len(bus) : /\ delivery[i] # "pending"
                              /\ bus[i].shop_id = filter.shop_id
                              /\ bus[i].customer_id = filter.customer_id

\* C6: an open stream on which nothing is published, and whose pull does not fail,
\* eventually ends normally.
C6_IdleStreamEndsNormally ==
  (phase = "waiting" /\ bus = << >>)
    ~> ((phase = "ended" /\ outcome = "normal") \/ bus # << >> \/ pull = "failed")

\* C7: once the client of a stream has disconnected, the streaming pull opened for the
\* stream is eventually no longer active.
C7_DisconnectCancelsSubscription == clientGone ~> (pull # "active")

\* the state parameter verifies at time t: signed by this server, of its issuer,
\* unexpired and of the state type
StateVerifies(tok, t) ==
  /\ tok.alg = "HS256"
  /\ tok.sig = "ok"
  /\ tok.iss = Issuer
  /\ ~(tok.exp # NoTime /\ tok.exp <= t)
  /\ tok.typ = "line_login_state"

\* where a callback is after the verification of its state
CallbackSteps == {"cb_exchange", "cb_member", "cb_insert", "cb_list"}

\* C11: in the OAuth callback the code exchange, the membership write and the token
\* issuance happen only after the state verified (signature, issuer, expiry, type);
\* a callback whose state does not verify is answered 401 with none of them done.
C11_StateVerifiedFirst ==
  \A p \in VerifyProcs :
    req[p].op = "callback" =>
      /\ pc[p] \in CallbackSteps => StateVerifies(req[p].token, req[p].at)
      /\ pc[p] = "done" /\ ~StateVerifies(req[p].token, req[p].at) =>
           /\ req[p].token # NoToken => resp[p].status = 401
           /\ req[p].user = NONE
           /\ req[p].post = req[p].pre
           /\ resp[p].token = NoToken
           /\ resp[p].cookie = NoToken

\* a callback came back with a state of this server that had expired, and was refused
C11_Witness ==
  \E p \in VerifyProcs :
    /\ Answered(p, {"callback"})
    /\ req[p].token.typ = "line_login_state"
    /\ req[p].token.sig = "ok"
    /\ req[p].token.exp <= req[p].at
    /\ resp[p].status = 401

\* tok is signed by this server and of its issuer, and its exp is not after t
ExpiredButSigned(tok, t) ==
  /\ tok.alg = "HS256"
  /\ tok.sig = "ok"
  /\ tok.iss = Issuer
  /\ tok.exp # NoTime
  /\ tok.exp <= t

\* the endpoints that verify a token of this server
VerifyOps == {"publish", "refresh", "callback", "bootstrap", "bridge"}

\* C12: a token whose exp has passed is refused with 401 at every verification point
\* (get_auth_context, /auth/refresh, the callback state, the bootstrap link token, the
\* /auth/line/firebase bridge) although its signature and issuer are valid.
C12_ExpiredTokenRefused ==
  \A p \in VerifyProcs :
    Answered(p, VerifyOps) /\ ExpiredButSigned(req[p].token, req[p].at)
      => /\ resp[p].status = 401
         /\ resp[p].token = NoToken
         /\ resp[p].cookie = NoToken
         /\ resp[p].state = NoToken
         /\ resp[p].ctx = NoCtx

\* an access token of a login, expired since, was presented to a route that resolves its
\* credential with get_auth_context
C12_Witness ==
  \E p \in VerifyProcs :
    /\ Answered(p, {"publish"})
    /\ IsAccessToken(req[p].token)
    /\ ExpiredButSigned(req[p].token, req[p].at)
    /\ resp[p].status = 401

\* C13: a refresh answered 200 hands out an access token and a refresh token, both
\* issued at the time of the request, whose user_id, shop_id, role and provider are
\* those of the refresh token presented; and after any number of successive rotations
\* the pair handed out, and the cookie the client keeps, still carry the subject of
\* the response that opened the session.
C13_RotationKeepsSubject ==
  /\ \A p \in TokenProcs :
       Answered(p, {"refresh"}) /\ resp[p].status = 200
         => /\ resp[p].token = create_access_token(SubjectOf(req[p].token), req[p].at)
            /\ resp[p].cookie = create_refresh_token(SubjectOf(req[p].token), req[p].at)
            /\ SubjectOf(resp[p].token) = session.origin
            /\ SubjectOf(resp[p].cookie) = session.origin
  /\ jar # NoToken => SubjectOf(jar) = session.origin

\* a second successive rotation was answered 200, later than the login
C13_Witness ==
  \E p \in TokenProcs :
    /\ Answered(p, {"refresh"})
    /\ resp[p].status = 200
    /\ session.rotations >= 2
    /\ req[p].at > 0
    /\ session.origin.role # NONE

\* C14: a response of the login, selection, callback or refresh endpoint that hands out
\* an access token also sets the refresh cookie, to a refresh token issued at the same
\* time for the same user_id, shop_id, role and provider; a response that hands out no
\* access token (the shop selection list, the no_shop redirect, an error, a loginUrl)
\* sets no cookie.
C14_CookieIffAccessToken ==
  \A p \in SeqProcs :
    pc[p] = "done"
      => /\ resp[p].token # NoToken
              => /\ req[p].op \in {"login", "select", "callback", "refresh"}
                 /\ IsAccessToken(resp[p].token)
                 /\ resp[p].cookie =
                      create_refresh_token(SubjectOf(resp[p].token), resp[p].token.iat)
         /\ resp[p].token = NoToken => resp[p].cookie = NoToken

\* the callback redirected with an access token in the URL and the cookie set
C14_Witness ==
  \E p \in SeqProcs :
    /\ Answered(p, {"callback"})
    /\ IsAccessToken(resp[p].token)
    /\ IsRefreshToken(resp[p].cookie)

\* the callback redirects with the token pair of user for shop and role: the access
\* token in the URL, the refresh cookie set
RedirectsWithPair(r, user, shop, role) ==
  /\ r.status = 307
  /\ r.shopId = shop
  /\ r.token = create_access_token(Subject(user, shop, role, "line"), r.token.iat)
  /\ r.cookie = create_refresh_token(Subject(user, shop, role, "line"), r.token.iat)

C16_TwoPhaseResolution ==
  \A p \in TokenProcs :
    Answered(p, {"publish"})
      => LET tok == req[p].token
             ctx == resp[p].ctx
             primary == VerifyIdTokenOk(tok, req[p].at)
             fallback == /\ JwtDecodeOk(tok, req[p].at)
                         /\ IsAccessToken(tok)
                         /\ tok.provider = "line"
         IN
         /\ primary <=> ctx.auth = "firebase"
         /\ ~primary /\ fallback => ctx.auth = "line"
         /\ ~primary /\ ~fallback => resp[p].status = 401 /\ ctx = NoCtx

\* C17: for a caller of provider line who is not the owner_uid of an existing shop,
\* user_can_access_shop grants access exactly when the table holds a line membership
\* row of (shop, caller) and either no roles are given or the row's role is among
\* them; so with roles {owner} a staff member is denied and an owner member admitted.
C17_AccessByMembershipAndRole ==
  \A p \in AccessProcs :
    ( /\ Answered(p, {"access"})
      /\ resp[p].ctx.provider = "line"
      /\ ShopExists(req[p].shop)
      /\ ShopOwner(req[p].shop) # req[p].user )
      => LET rows == MembershipsIn(req[p].pre, req[p].user, req[p].shop) IN
         /\ resp[p].status \in {200, 403}
         /\ resp[p].status = 200
              <=> \E i \in rows : req[p].roles = {} \/ req[p].pre[i].role \in req[p].roles
         /\ req[p].roles = {"owner"} =>
              \A i \in rows : /\ req[p].pre[i].role = "staff" => resp[p].status = 403
                              /\ req[p].pre[i].role = "owner" => resp[p].status = 200

\* with roles {owner} a staff member was denied for a shop that also has an owner member
C17_Witness ==
  \E p \in AccessProcs :
    /\ Answered(p, {"access"})
    /\ resp[p].ctx.provider = "line"
    /\ req[p].roles = {"owner"}
    /\ resp[p].status = 403
    /\ \E i \in MembershipsIn(req[p].pre, req[p].user, req[p].shop) :
         req[p].pre[i].role = "staff"
    /\ \E j \in 1 .. Len(req[p].pre) :
         /\ req[p].pre[j].shop_id = req[p].shop
         /\ req[p].pre[j].auth_provider = "line"
         /\ req[p].pre[j].role = "owner"

\* the link token is one the bootstrap may accept: signed with the secret, of the
\* issuer, unexpired at time t, of typ line_login_link, with a shop_id
GoodLinkToken(tok, t) ==
  /\ tok.alg = "HS256"
  /\ tok.sig = "ok"
  /\ tok.iss = Issuer
  /\ ~(tok.exp # NoTime /\ tok.exp <= t)
  /\ tok.typ = "line_login_link"
  /\ tok.shop_id # NONE

\* C18: POST /auth/line/bootstrap answers with a login URL only for a link token with
\* a valid signature and issuer, unexpired, of typ line_login_link and with a shop_id,
\* and the state token in that URL carries the link token's shop_id; for any other
\* link token it answers with an error and no state token.
C18_BootstrapLinkToken ==
  \A p \in VerifyProcs :
    Answered(p, {"bootstrap"})
      => /\ resp[p].status = 200
              => /\ GoodLinkToken(req[p].token, req[p].at)
                 /\ resp[p].state = StateToken(req[p].token.shop_id, req[p].at)
                 /\ stateTok = resp[p].state
         /\ ~GoodLinkToken(req[p].token, req[p].at)
              => /\ resp[p].status \in {400, 401}
                 /\ resp[p].state = NoToken
         /\ resp[p].status # 200 => resp[p].state = NoToken

\* a bootstrap was answered with a login URL whose state names the link token's shop
C18_Witness ==
  \E p \in VerifyProcs :
    /\ Answered(p, {"bootstrap"})
    /\ resp[p].status = 200
    /\ resp[p].state.shop_id = req[p].token.shop_id
    /\ resp[p].state.shop_id \in ExistingShops

\* the positions of the error marker among the events sent
Markers(sent) == { k \in 1 .. Len(sent) : sent[k] = ErrorMarker }

\* at most one error marker was sent, nothing was sent after it, and it is sent only
\* by a stream that has ended on a failed subscription
MarkerIsFinal ==
  /\ Cardinality(Markers(emitted)) <= 1
  /\ \A k \in Markers(emitted) : k = Len(emitted)
  /\ Markers(emitted) # {} => phase = "ended" /\ sub = "failed"
  /\ phase = "ended" /\ sub = "failed" => Markers(emitted) # {} /\ outcome = "error"

\* C19: when the streaming pull of an open stream fails, the stream eventually ends
\* having sent exactly one error marker as its last event; the failure reaches the
\* client as that event and nothing is sent after it.
C19_FailureEndsWithOneMarker ==
  /\ []MarkerIsFinal
  /\ (sub = "failed") ~> (phase = "ended" /\ Cardinality(Markers(emitted)) = 1)

\* a stream whose pull failed while events were on the bus has ended with the marker
C19_Witness ==
  /\ phase = "ended"
  /\ pull = "failed"
  /\ bus # << >>
  /\ emitted # << >>
  /\ emitted[Len(emitted)] = ErrorMarker

C21_InspectedEventsAcked ==
  \A i \in 1 .. Len(bus) :
    delivery[i] # "pending"
      => /\ delivery[i] = "acked"
         /\ Matches(bus[i], filter.shop_id, filter.customer_id)
              => \E k \in 1 .. Len(handed) : handed[k] = bus[i]

\* C22: the hand-off from the callback to the consumer loop keeps the events and their
\* order: the events the callback was handed for the stream are, in the order of their
\* delivery, the events already yielded followed by the events waiting in the queue.
C22_HandOffKeepsOrder == handed = yielded \o queue

\* what a request for (user, shop) did: the status, the subjects of the access token
\* and of the refresh cookie (NoToken when there is none), and the rows it added to
\* the table, without their creation time
SubjectOrNone(tok) == IF tok = NoToken THEN NoToken ELSE SubjectOf(tok)

ShopEffect(r, a) ==
  [status |-> a.status,
   access |-> SubjectOrNone(a.token),
   refresh |-> SubjectOrNone(a.cookie),
   kept |-> SubSeq(r.post, 1, Len(r.pre)) = r.pre,
   added |-> [k \in 1 .. Len(r.post) - Len(r.pre) |->
                [r.post[Len(r.pre) + k] EXCEPT !.created_at = NoTime]]]

\* the effects the lookup-or-create of (user, shop) may have on table ms: the tokens
\* of an existing line membership, 404 for a missing shop, or a new owner row and its
\* tokens
ShopEffects(ms, user, shop) ==
  IF MembershipsIn(ms, user, shop) # {}
    THEN { [status |-> 200,
            access |-> Subject(user, shop, ms[i].role, "line"),
            refresh |-> Subject(user, shop, ms[i].role, "line"),
            kept |-> TRUE,
            added |-> << >>] : i \in MembershipsIn(ms, user, shop) }
    ELSE IF ~ShopExists(shop)
      THEN { [status |-> 404, access |-> NoToken, refresh |-> NoToken, kept |-> TRUE,
              added |-> << >>] }
      ELSE { [status |-> 200,
              access |-> Subject(user, shop, "owner", "line"),
              refresh |-> Subject(user, shop, "owner", "line"),
              kept |-> TRUE,
              added |-> << Row(shop, user, "owner", "line", NoTime) >>] }

\* C23: POST /auth/line/select and POST /auth/line with a shopId are equivalent: on
\* the same table and for the same (user, shop) each of them has the one effect the
\* lookup-or-create determines, so both answer with the same status, change the
\* table in the same way and issue token pairs of the same subject.
C23_SelectEqualsLoginWithShop ==
  \A p \in SeqProcs :
    Answered(p, {"login", "select"}) /\ req[p].shop # NONE
      => /\ ShopEffect(req[p], resp[p]) \in ShopEffects(req[p].pre, req[p].user, req[p].shop)
         /\ Cardinality(ShopEffects(req[p].pre, req[p].user, req[p].shop)) = 1

\* a selection created the owner membership of a user who had none in the shop
C23_Witness ==
  \E p \in SeqProcs :
    /\ Answered(p, {"select"})
    /\ resp[p].status = 200
    /\ MembershipsIn(req[p].pre, req[p].user, req[p].shop) = {}
    /\ Len(req[p].post) = Len(req[p].pre) + 1

\* C24: while two streams with different filters are open on the shared subscription,
\* no event that matches the filter of one of them is acknowledged, and so discarded,
\* by the message_callback of the other
C24_NoDiscardByOtherStream ==
  (/\ phase = "waiting"
   /\ peer.phase = "waiting"
   /\ << filter.shop_id, filter.customer_id >>
        # << peer.filter.shop_id, peer.filter.customer_id >>)
    => \A i \in 1 .. Len(bus) :
         Matches(bus[i], peer.filter.shop_id, peer.filter.customer_id)
           => delivery[i] # "acked"

\* C25: a request to GET /inbox/stream/{customer_id} for a missing shop is answered 404
\* and one by a caller who is not the shop's owner 403, and neither changes the state
\* of the stream (no subscription task, no streaming pull, nothing sent); the stream and
\* its subscription are opened only by a request for an existing shop whose caller
\* passed the check
C25_StreamOnlyAfterShopCheck ==
  [][ \A p \in TokenProcs :
        (nreq' = nreq + 1 /\ req'[p].op = "stream" /\ resp'[p].status # 401)
          => LET shop == req'[p].shop
                 uid == req'[p].token.uid
             IN
             /\ ~ShopExists(shop) => resp'[p].status = 404
             /\ (ShopExists(shop) /\ ShopOwner(shop) # uid) => resp'[p].status = 403
             /\ resp'[p].status \in {403, 404} => UNCHANGED streamVars
             /\ (sub' # sub \/ phase' # phase \/ pull' # pull \/ emitted' # emitted)
                  => /\ ShopExists(shop)
                     /\ ShopOwner(shop) = uid
                     /\ resp'[p].status = 200
                     /\ filter'.shop_id = shop ]_vars

\* a caller who is not the owner was refused while the owner's stream of that shop was
\* open and events of the shop were on the bus
C25_Witness ==
  \E p \in TokenProcs :
    /\ Answered(p, {"stream"})
    /\ resp[p].status = 403
    /\ phase = "waiting"
    /\ filter.shop_id = req[p].shop
    /\ bus # << >>

\* the line membership rows of (shop, user) with role owner or staff in table ms
StaffRows(ms, shop, user) ==
  { i \in MemberRows(ms, shop, user, "line") : ms[i].role \in {"owner", "staff"} }

\* C26: the publish route admits a chat-provider context to store S only if the token's
\* shop_id is S and the table holds, at the request, a line membership row of
\* (S, user_id) with role owner or staff; a context whose token is scoped to another
\* shop is answered 403 whatever the user's memberships; and a context scoped to S
\* with one such row is admitted whatever role its token carries.
C26_ScopeAndMembership ==
  \A p \in TokenProcs :
    (Answered(p, {"publish"}) /\ resp[p].ctx.auth = "line")
      => LET S == req[p].shop
             ctx == resp[p].ctx
             rows == StaffRows(req[p].pre, S, ctx.user_id)
         IN
         /\ resp[p].status = 200 => (ctx.shop_id = S /\ rows # {})
         /\ (ShopExists(S) /\ ctx.shop_id # S) => resp[p].status = 403
         /\ (ctx.shop_id = S /\ Cardinality(rows) = 1) => resp[p].status = 200

\* a member of S presented a token scoped to another shop and was refused
C26_Witness ==
  \E p \in TokenProcs :
    /\ Answered(p, {"publish"})
    /\ resp[p].ctx.auth = "line"
    /\ resp[p].ctx.shop_id # req[p].shop
    /\ StaffRows(req[p].pre, req[p].shop, resp[p].ctx.user_id) # {}
    /\ resp[p].status = 403

\* table ms holds a line membership row with the subject fields of token tok
RowOfToken(ms, tok) ==
  \E i \in 1 .. Len(ms) :
    /\ ms[i].auth_provider = "line"
    /\ ms[i].user_id = tok.user_id
    /\ ms[i].shop_id = tok.shop_id
    /\ ms[i].role = tok.role

\* C27: whenever the direct login, the selection or the OAuth callback answers with
\* tokens, it answers with the pair, both tokens carry provider line, and the table as
\* it is when the handler answers holds a line membership row with the user_id, shop_id
\* and role of the tokens.
C27_TokensMatchMembership ==
  \A p \in Procs \cup SeqProcs :
    (/\ Answered(p, {"login", "select", "callback"})
     /\ (resp[p].token # NoToken \/ resp[p].cookie # NoToken))
      => /\ IsAccessToken(resp[p].token)
         /\ IsRefreshToken(resp[p].cookie)
         /\ \A tok \in {resp[p].token, resp[p].cookie} :
              /\ tok.provider = "line"
              /\ RowOfToken(req[p].post, tok)

\* the callback answered with the tokens of the membership it had just written
C27_Witness ==
  \E p \in Procs \cup SeqProcs :
    /\ Answered(p, {"callback"})
    /\ IsAccessToken(resp[p].token)
    /\ Len(req[p].post) > Len(req[p].pre)
    /\ RowOfToken(req[p].post, resp[p].token)

\* C28: every step of the login flows that changes the membership table appends rows
\* to it and leaves the earlier rows as they were, and every appended row has role
\* owner and provider line and names a shop that exists in the store at that step,
\* with a state token of the OAuth flow in the callback as with a shopId in the login
\* and the selection.
C28_InsertedRowsAreOwnerLine ==
  [][ /\ Len(members') >= Len(members)
      /\ SubSeq(members', 1, Len(members)) = members
      /\ \A i \in Len(members) + 1 .. Len(members') :
           /\ members'[i].role = "owner"
           /\ members'[i].auth_provider = "line"
           /\ ShopExists(members'[i].shop_id) ]_vars

\* the callback inserted an owner row for the shop named by its state token
C28_Witness ==
  \E p \in SeqProcs :
    /\ Answered(p, {"callback"})
    /\ req[p].token.shop_id \in ExistingShops
    /\ Len(req[p].post) = Len(req[p].pre) + 1
    /\ req[p].post[Len(req[p].post)] =
         Row(req[p].token.shop_id, req[p].user, "owner", "line", req[p].at)

\* C29: the timeout of a stream runs from its opening and no event resets it: the
\* stream leaves its loop by timeout only when more than the timeout has elapsed since
\* start_time, and a stream that is in its loop when more than the timeout has elapsed
\* leaves the loop.
C29_TimeoutFromOpen ==
  /\ []((phase = "finally" /\ outcome = "timeout") => clock - startTime > filter.timeout)
  /\ (phase = "waiting" /\ clock - startTime > filter.timeout) ~> (phase # "waiting")

\* sequence a is sequence b with some of its elements left out
RECURSIVE IsSubsequence(_, _)
IsSubsequence(a, b) ==
  IF a = << >> THEN TRUE
  ELSE IF b = << >> THEN FALSE
  ELSE IF Head(a) = Head(b) THEN IsSubsequence(Tail(a), Tail(b))
  ELSE IsSubsequence(a, Tail(b))

\* C30: the send action persists a message only after the chat platform accepted its
\* push and publishes it only after it was persisted: at every moment the stored
\* messages are pushed ones, in the order of the pushes, and the published messages are
\* stored ones, in the order they were stored; and when the push fails the request ends with an error at that
\* step, with nothing stored and nothing published.
C30_PushPersistPublish ==
  /\ [](IsSubsequence(history, pushed) /\ IsSubsequence(bus, history))
  /\ [][ \A p \in TokenProcs :
           (pc[p] = "send_push" /\ pushed' = pushed)
             => /\ pc'[p] = "done"
                /\ resp'[p].status = 500
                /\ history' = history
                /\ bus' = bus ]_vars

\* after a message that was pushed, stored and published, the push of a second one
\* failed: the request was answered 500 and nothing more was stored or published
C30_Witness ==
  \E p \in TokenProcs :
    /\ Answered(p, {"send"})
    /\ resp[p].status = 500
    /\ Len(pushed) = 1
    /\ history = pushed
    /\ bus = pushed

====
